---------------------------- MODULE Spec2Model ----------------------------
(***************************************************************************)
(* The two incremental decoders of go-structform: the text (JSON) decoder  *)
(* of json/parse.go and the binary (CBOR) decoder of cborl/parse.go.       *)
(*                                                                         *)
(* A decoder instance is a record holding the fields of the Go struct.     *)
(* The visitor (the consumer of the events) is modelled by the log of the  *)
(* events it received and by the number of events it still accepts before  *)
(* it reports an error.  Bytes are the numbers 0..255, a fragment is a     *)
(* sequence of bytes.  Every step function of the source is an operator    *)
(* that maps a parser and a fragment to the parser afterwards, the rest of *)
(* the fragment and the values the Go function returns.                    *)
(*                                                                         *)
(* The byte stream `doc' is chosen in the initial state; the actions hand  *)
(* it to the decoder in fragments of any size, so that every split of      *)
(* every stream of the bounded sets is a behaviour.                        *)
(***************************************************************************)
EXTENDS Integers, Sequences, FiniteSets, TLC

VARIABLES
    doc,      \* the byte stream a caller delivers to the decoder
    pos,      \* number of bytes of doc handed to the decoder so far
    calls,    \* number of calls made so far
    ret,      \* what the last call returned: [call, n, err]
    failure,  \* the first error any call returned (Nil while there is none)
    fin,      \* text decoder: "no" finalize yet, "just" finalized, "past"
    jp,       \* the text decoder instance  (json.Parser)
    cp,       \* the binary decoder instance (cborl.Parser)
    dec       \* the package of the decoder the caller uses: "json" or "cborl"

vars == <<doc, pos, calls, ret, failure, fin, jp, cp, dec>>

-----------------------------------------------------------------------------
(* Bounds of the model *)

\* longest byte stream of the exhaustively enumerated binary inputs
MaxCDocLen == 3

\* longest byte stream of the exhaustively enumerated text inputs
MaxJDocLen == 3

\* the most events a consumer accepts before it reports an error
MaxQuota == 2

-----------------------------------------------------------------------------
(* Generic helpers *)

Nil == "nil"

\* the outcome of a call that never returns
Diverges == "diverges"

Take(s, n) == SubSeq(s, 1, n)

Drop(s, n) == SubSeq(s, n + 1, Len(s))

\* all sequences over S of length 0..n
SeqsUpTo(S, n) == UNION {[1..k -> S] : k \in 0..n}

\* an event delivered to the visitor: its name, a number and a byte string
Ev(name, n, s) == [ev |-> name, n |-> n, s |-> s]

\* the count an aggregate start event carries
Start(name, n, ty) == [ev |-> name, n |-> n, s |-> ty]

AnyType == <<0>>

ByteType == <<1>>

\* the visitor of a fresh decoder: an empty log; quota < 0: it never fails
NewVisitor(quota) == [log |-> <<>>, quota |-> quota]

ErrVisitor == "errVisitor"

\* One visitor callback.  The consumer records the event and returns nil,
\* or it returns its error once its quota of events is used up.
Visit(p, e) ==
    IF p.visitor.quota = 0
    THEN [p |-> p, err |-> ErrVisitor]
    ELSE [p |-> [p EXCEPT !.visitor.log = Append(@, e),
                          !.visitor.quota = IF @ > 0 THEN @ - 1 ELSE @],
          err |-> Nil]


-----------------------------------------------------------------------------
(* The binary decoder: constants of the wire format and of the state machine *)

majorUint == 0

majorNeg == 32

majorBytes == 64

majorText == 96

majorArr == 128

majorMap == 160

majorTag == 192

majorOther == 224

len8b == 24

len16b == 25

len32b == 26

len64b == 27

lenIndef == 31

codeFalse == 244

codeTrue == 245

codeNull == 246

codeUndef == 247

codeHalfFloat == 249

codeSingleFloat == 250

codeDoubleFloat == 251

codeBreak == 255

\* b & majorMask, b & minorMask
Major(c) == (c \div 32) * 32

Minor(c) == c % 32

stFail == 1

stValue == 2

stLen == 3

stStartX == 4

stIndef == 1

stStartArr == majorArr + stStartX

stStartMap == majorMap + stStartX

stStartIndefArr == majorArr + stStartX + stIndef

stStartIndefMap == majorMap + stStartX + stIndef

stKey == majorMap + 8

stElem == majorMap + 9

stStart == 1

stCont == 2

errIndefByteSeq == "errIndefByteSeq"

errTextKeyRequired == "errTextKeyRequired"

errInvalidCode == "errInvalidCode"

errTODO == "errTODO"

St(major, minor) == [major |-> major, minor |-> minor]

-----------------------------------------------------------------------------
(* The two stacks of the binary decoder *)

\* stateStack.push: the current frame is saved, next becomes current
StatePush(p, next) ==
    [p EXCEPT !.state =
        [stack   |-> IF @.current.major # stFail
                     THEN Append(@.stack, @.current) ELSE @.stack,
         current |-> next]]

\* stateStack.pop: the enclosing frame becomes current again
StatePop(p) ==
    [p EXCEPT !.state =
        IF Len(@.stack) = 0
        THEN [stack |-> <<>>, current |-> St(stFail, stStart)]
        ELSE [stack   |-> Take(@.stack, Len(@.stack) - 1),
              current |-> @.stack[Len(@.stack)]]]

\* lengthStack.push
LengthPush(p, l) ==
    [p EXCEPT !.length = [stack |-> Append(@.stack, @.current), current |-> l]]

\* lengthStack.pop
LengthPop(p) ==
    [p EXCEPT !.length =
        IF Len(@.stack) = 0
        THEN [stack |-> <<>>, current |-> -1]
        ELSE [stack   |-> Take(@.stack, Len(@.stack) - 1),
              current |-> @.stack[Len(@.stack)]]]

\* NewParser / Parser.init
CInit(quota) ==
    [visitor |-> NewVisitor(quota),
     err     |-> Nil,
     state   |-> [stack |-> <<>>, current |-> St(stValue, stStart)],
     length  |-> [stack |-> <<>>, current |-> 0],
     buffer  |-> <<>>]

\* what a step function returns: the parser afterwards, the rest of the
\* fragment (nil is the empty sequence), done and err
R(p, b, done, err) == [p |-> p, b |-> b, done |-> done, err |-> err]

-----------------------------------------------------------------------------
(* Fixed-width big-endian fields *)

\* collect without its carry branch: the bytes buffered by earlier calls
\* are never joined with the fragment
CollectNoCarry(p, b, count) ==
    IF Len(b) >= count
    THEN [p |-> p, b |-> Drop(b, count), ok |-> TRUE, tmp |-> Take(b, count)]
    ELSE [p |-> [p EXCEPT !.buffer = @ \o b], b |-> <<>>, ok |-> FALSE, tmp |-> <<>>]

\* Parser.collect: count bytes, from the carry buffer and the fragment.
\* ok = FALSE stands for the nil slice the Go function returns while the
\* field is incomplete.
Collect(p, b, count) ==
    LET direct ==
            IF Len(b) >= count
            THEN [p |-> p, b |-> Drop(b, count), ok |-> TRUE, tmp |-> Take(b, count)]
            ELSE [p |-> [p EXCEPT !.buffer = @ \o b], b |-> <<>>,
                  ok |-> FALSE, tmp |-> <<>>]
        delta == count - Len(p.buffer)
        N == IF delta > Len(b) THEN Len(b) ELSE delta
    IN  IF Len(p.buffer) > 0
        THEN IF delta > 0 /\ delta > Len(b)
             THEN [p |-> [p EXCEPT !.buffer = @ \o Take(b, N)], b |-> <<>>,
                   ok |-> FALSE, tmp |-> <<>>]
             ELSE LET buf == IF delta > 0 THEN p.buffer \o Take(b, N) ELSE p.buffer
                      b2  == IF delta > 0 THEN Drop(b, N) ELSE b
                  IN  IF Len(buf) >= count
                      THEN [p |-> [p EXCEPT !.buffer = Drop(buf, count)], b |-> b2,
                            ok |-> TRUE, tmp |-> Take(buf, count)]
                      ELSE direct
        ELSE direct

\* binary.BigEndian.Uint16
BigEndian16(tmp) == tmp[1] * 256 + tmp[2]

\* int8(^v) of a uint8 v: bit inversion, then reinterpretation as signed
Int8Inv(v) == IF 255 - v >= 128 THEN (255 - v) - 256 ELSE 255 - v

\* int16(^v) of a uint16 v
Int16Inv(v) == IF 65535 - v >= 32768 THEN (65535 - v) - 65536 ELSE 65535 - v

\* ^v of a 32 or 64 bit value, kept as its big-endian bytes
InvBytes(tmp) == [i \in 1..Len(tmp) |-> 255 - tmp[i]]

\* Parser.getUint16 / getUint32 / getUint64: the field of `width' bytes.
\* A 16 bit field is returned as its value, a 32 or 64 bit field as its
\* big-endian bytes (the digits of the value to the base 256).
GetUint(p, b, width) == Collect(p, b, width)


\* the value of a big-endian length field (stepLen: int64 of the field)
RECURSIVE BigEndian(_)
BigEndian(tmp) ==
    IF Len(tmp) = 0 THEN 0
    ELSE BigEndian(Take(tmp, Len(tmp) - 1)) * 256 + tmp[Len(tmp)]

\* number of bytes that follow a head byte of minor 24..27
Width(minor) ==
    IF minor = len16b THEN 2 ELSE IF minor = len32b THEN 4
    ELSE IF minor = len64b THEN 8 ELSE 1

-----------------------------------------------------------------------------
(* The step functions of the binary decoder *)

\* Parser.onValue: a value is complete.  Inside a definite-length array or
\* map the pending count is decremented; elsewhere the value is `done'.
OnValue(p) ==
    IF p.state.current.major \in {majorArr, majorMap}
    THEN [p |-> [p EXCEPT !.length.current = @ - 1], done |-> FALSE]
    ELSE [p |-> p, done |-> TRUE]

\* Parser.popState
PopState(p) == OnValue(StatePop(p))

\* `err := visitor.OnX(..); done := p.onValue(); return b[1:], done, err'
Scalar(p, b, e) ==
    LET v == Visit(p, e)
        o == OnValue(v.p)
    IN  R(o.p, Tail(b), o.done, v.err)

\* Parser.initByteSeq: a byte string, text string or map key begins
InitByteSeq(p, major, minor, b) ==
    IF minor < len8b
    THEN R(LengthPush(StatePush(p, St(major, stStart)), minor), b, FALSE, Nil)
    ELSE R(StatePush(StatePush(p, St(major, stStart)), St(stLen, minor)),
           b, FALSE, Nil)

\* Parser.initSub: an array or map begins
InitSub(p, major, minor, b) ==
    IF minor = lenIndef
    THEN R(StatePush(StatePush(p, St(major + stIndef, stStart)),
                     St(major + stStartX + stIndef, stStart)), b, FALSE, Nil)
    ELSE IF minor < len8b
    THEN R(LengthPush(StatePush(StatePush(p, St(major, stStart)),
                                St(major + stStartX, stStart)), minor),
           b, FALSE, Nil)
    ELSE R(StatePush(StatePush(StatePush(p, St(major, stStart)),
                               St(major + stStartX, stStart)),
                     St(stLen, minor)), b, FALSE, Nil)

\* Parser.stepValue: the head byte of a value
StepValue(p, b) ==
    LET c     == Head(b)
        major == Major(c)
        minor == Minor(c)
    IN  IF major = majorUint
        THEN IF c < len8b
             THEN Scalar(p, b, Ev("OnUint8", c, <<>>))
             ELSE R(StatePush(p, St(major, minor)), Tail(b), FALSE, Nil)
        ELSE IF major = majorNeg
        THEN IF minor < len8b
             THEN Scalar(p, b, Ev("OnInt8", Int8Inv(minor), <<>>))
             ELSE R(StatePush(p, St(major, minor)), Tail(b), FALSE, Nil)
        ELSE IF major \in {majorBytes, majorText}
        THEN IF minor = lenIndef
             THEN R(p, <<>>, FALSE, errIndefByteSeq)
             ELSE InitByteSeq(p, major, minor, Tail(b))
        ELSE IF major \in {majorArr, majorMap}
        THEN InitSub(p, major, minor, Tail(b))
        ELSE IF major = majorTag
        THEN R(p, <<>>, FALSE, errTODO)
        ELSE IF c = codeFalse THEN Scalar(p, b, Ev("OnBool", 0, <<>>))
        ELSE IF c = codeTrue THEN Scalar(p, b, Ev("OnBool", 1, <<>>))
        ELSE IF c \in {codeNull, codeUndef} THEN Scalar(p, b, Ev("OnNil", 0, <<>>))
        ELSE IF c = codeHalfFloat THEN R(p, Tail(b), FALSE, errTODO)
        ELSE IF c \in {codeSingleFloat, codeDoubleFloat}
        THEN R(StatePush(p, St(c, stStart)), Tail(b), FALSE, Nil)
        ELSE R(p, <<>>, FALSE, errInvalidCode)

\* the tail of stepUint and stepNeg: `if done && err == nil { done = p.popState() }'
Finish(p, b, done, err) ==
    IF done /\ err = Nil
    THEN LET o == PopState(p) IN R(o.p, b, o.done, err)
    ELSE R(p, b, done, err)

\* Parser.stepUint: the bytes that follow an unsigned integer head.
\* A minor the switch does not list leaves parser and fragment as they are.
StepUint(p, b) ==
    LET minor == p.state.current.minor IN
    IF minor = len8b
    THEN LET v == Visit(p, Ev("OnUint8", Head(b), <<>>))
         IN  Finish(v.p, Tail(b), TRUE, v.err)
    ELSE IF minor \in {len16b, len32b, len64b}
    THEN LET g == GetUint(p, b, Width(minor)) IN
         IF ~g.ok THEN R(g.p, <<>>, FALSE, Nil)
         ELSE LET v == Visit(g.p,
                       IF minor = len16b
                       THEN Ev("OnUint16", BigEndian16(g.tmp), <<>>)
                       ELSE IF minor = len32b
                       THEN Ev("OnUint32", 0, g.tmp)
                       ELSE Ev("OnUint64", 0, g.tmp))
              IN  Finish(v.p, g.b, TRUE, v.err)
    ELSE R(p, b, FALSE, Nil)

\* Parser.stepNeg: the bytes that follow a negative integer head
StepNeg(p, b) ==
    LET minor == p.state.current.minor IN
    IF minor = len8b
    THEN LET v == Visit(p, Ev("OnInt8", Int8Inv(Head(b)), <<>>))
         IN  Finish(v.p, Tail(b), TRUE, v.err)
    ELSE IF minor \in {len16b, len32b, len64b}
    THEN LET g == GetUint(p, b, Width(minor)) IN
         IF ~g.ok THEN R(g.p, <<>>, FALSE, Nil)
         ELSE LET v == Visit(g.p,
                       IF minor = len16b
                       THEN Ev("OnInt16", Int16Inv(BigEndian16(g.tmp)), <<>>)
                       ELSE IF minor = len32b
                       THEN Ev("OnInt32", 0, InvBytes(g.tmp))
                       ELSE Ev("OnInt64", 0, InvBytes(g.tmp)))
              IN  Finish(v.p, g.b, TRUE, v.err)
    ELSE R(p, b, FALSE, Nil)

\* Parser.stepSingleFloat / stepDoubleFloat.  The Go function reads its
\* named result b, which is still nil, and never its argument: getUint32
\* is handed the empty fragment.
StepFloat(p, in, width, name) ==
    LET g == GetUint(p, <<>>, width) IN
    IF g.ok
    THEN LET v == Visit(g.p, Ev(name, 0, g.tmp)) IN R(v.p, g.b, TRUE, v.err)
    ELSE R(g.p, <<>>, FALSE, Nil)

StepSingleFloat(p, in) == StepFloat(p, in, 4, "OnFloat32")

StepDoubleFloat(p, in) == StepFloat(p, in, 8, "OnFloat64")


\* the loop of stepBytes: one OnByte per byte, up to the first error
RECURSIVE VisitBytes(_, _)
VisitBytes(p, bs) ==
    IF bs = <<>> THEN [p |-> p, err |-> Nil]
    ELSE LET v == Visit(p, Ev("OnByte", Head(bs), <<>>)) IN
         IF v.err # Nil THEN v ELSE VisitBytes(v.p, Tail(bs))

\* stepBytes that does not carry the remaining count to the next call
StepBytesNoCarry(p, b) ==
    LET s  == IF p.state.current.minor = stStart
              THEN Visit(p, Start("OnArrayStart", p.length.current, ByteType))
              ELSE [p |-> p, err |-> Nil]
        p1 == IF p.state.current.minor = stStart
              THEN [s.p EXCEPT !.state.current.minor = stCont] ELSE s.p
        done == Len(b) >= p1.length.current
        L  == IF done THEN p1.length.current ELSE Len(b)
        w  == VisitBytes(p1, Take(b, L))
    IN  IF s.err # Nil THEN R(s.p, <<>>, FALSE, s.err)
        ELSE IF w.err # Nil THEN R(w.p, <<>>, FALSE, w.err)
        ELSE IF done
        THEN LET f  == Visit(w.p, Ev("OnArrayFinished", 0, <<>>))
                 p3 == LengthPop(f.p)
             IN  IF f.err = Nil
                 THEN LET o == PopState(p3) IN R(o.p, Drop(b, L), o.done, Nil)
                 ELSE R(p3, Drop(b, L), TRUE, f.err)
        ELSE R(w.p, Drop(b, L), FALSE, Nil)

\* Parser.stepBytes: the body of a byte string, streamed byte by byte
StepBytes(p, b) ==
    LET s  == IF p.state.current.minor = stStart
              THEN Visit(p, Start("OnArrayStart", p.length.current, ByteType))
              ELSE [p |-> p, err |-> Nil]
        p1 == IF p.state.current.minor = stStart
              THEN [s.p EXCEPT !.state.current.minor = stCont] ELSE s.p
        done == Len(b) >= p1.length.current
        L  == IF done THEN p1.length.current ELSE Len(b)
        p2 == IF done THEN p1 ELSE [p1 EXCEPT !.length.current = @ - L]
        w  == VisitBytes(p2, Take(b, L))
    IN  IF s.err # Nil THEN R(s.p, <<>>, FALSE, s.err)
        ELSE IF w.err # Nil THEN R(w.p, <<>>, FALSE, w.err)
        ELSE IF done
        THEN LET f  == Visit(w.p, Ev("OnArrayFinished", 0, <<>>))
                 p3 == LengthPop(f.p)
             IN  IF f.err = Nil
                 THEN LET o == PopState(p3) IN R(o.p, Drop(b, L), o.done, Nil)
                 ELSE R(p3, Drop(b, L), TRUE, f.err)
        ELSE R(w.p, Drop(b, L), FALSE, Nil)

\* Parser.stepText: the body of a text string, delivered as one string
StepText(p, b) ==
    LET g == Collect(p, b, p.length.current) IN
    IF ~g.ok THEN R(g.p, <<>>, FALSE, Nil)
    ELSE LET v == Visit(g.p, Ev("OnStringRef", 0, g.tmp)) IN
         IF v.err = Nil
         THEN LET o == PopState(v.p) IN R(o.p, g.b, o.done, Nil)
         ELSE R(v.p, g.b, TRUE, v.err)

\* Parser.stepKey: the body of a map key
StepKey(p, b) ==
    LET g == Collect(p, b, p.length.current) IN
    IF ~g.ok THEN R(g.p, <<>>, FALSE, Nil)
    ELSE LET v == Visit(g.p, Ev("OnKeyRef", 0, g.tmp)) IN
         IF v.err = Nil
         THEN R([LengthPop(v.p) EXCEPT !.state.current.major = stElem],
                g.b, FALSE, Nil)
         ELSE R(v.p, g.b, FALSE, v.err)

\* Parser.initMapKey: the head byte of a map key
InitMapKey(p, b) ==
    IF Major(Head(b)) # majorText THEN R(p, <<>>, FALSE, errTextKeyRequired)
    ELSE IF Minor(Head(b)) = lenIndef THEN R(p, <<>>, FALSE, errIndefByteSeq)
    ELSE InitByteSeq(p, stKey, Minor(Head(b)), Tail(b))

\* Parser.stepArray: inside a definite-length array
StepArray(p, b) ==
    IF p.length.current = 0
    THEN LET v == Visit(p, Ev("OnArrayFinished", 0, <<>>)) IN
         IF v.err # Nil THEN R(v.p, <<>>, FALSE, v.err)
         ELSE LET o == PopState(LengthPop(v.p)) IN R(o.p, b, o.done, Nil)
    ELSE StepValue(p, b)

\* Parser.stepMap: inside a definite-length map
StepMap(p, b) ==
    IF p.length.current = 0
    THEN LET v == Visit(p, Ev("OnObjectFinished", 0, <<>>)) IN
         IF v.err # Nil THEN R(v.p, <<>>, FALSE, v.err)
         ELSE LET o == PopState(LengthPop(v.p)) IN R(o.p, b, o.done, Nil)
    ELSE InitMapKey(p, b)

\* Parser.stepLen: the bytes of a length field.  A minor the switch does
\* not list leaves parser and fragment as they are.
StepLen(p, b) ==
    LET minor == p.state.current.minor IN
    IF minor = len8b
    THEN R(StatePop(LengthPush(p, Head(b))), Tail(b), FALSE, Nil)
    ELSE IF minor \in {len16b, len32b, len64b}
    THEN LET g == GetUint(p, b, Width(minor)) IN
         IF g.ok
         THEN R(StatePop(LengthPush(g.p, BigEndian(g.tmp))), g.b, FALSE, Nil)
         ELSE R(g.p, <<>>, FALSE, Nil)
    ELSE R(p, b, FALSE, Nil)

\* the array case of the break byte without its finish event
StepIndefArrNoFinish(p, b) ==
    IF Head(b) = codeBreak
    THEN LET o == PopState(p) IN R(o.p, Tail(b), o.done, Nil)
    ELSE StepValue(p, b)

\* the break byte or the next element of an indefinite-length array
StepIndefArr(p, b) ==
    IF Head(b) = codeBreak
    THEN LET v == Visit(p, Ev("OnArrayFinished", 0, <<>>))
             o == PopState(v.p)
         IN  R(o.p, Tail(b), o.done, v.err)
    ELSE StepValue(p, b)

\* the break byte or the next key of an indefinite-length map
StepIndefMap(p, b) ==
    IF Head(b) = codeBreak
    THEN LET v == Visit(p, Ev("OnObjectFinished", 0, <<>>))
             o == PopState(v.p)
         IN  R(o.p, Tail(b), o.done, v.err)
    ELSE InitMapKey(p, b)

\* execStep after the start event of an aggregate: an error of the visitor
\* ends the step, else the start frame is popped and the case below runs
StartedArr(v, b) ==
    IF v.err # Nil THEN R(v.p, b, FALSE, v.err) ELSE StepArray(StatePop(v.p), b)

StartedMap(v, b) ==
    IF v.err # Nil THEN R(v.p, b, FALSE, v.err) ELSE StepMap(StatePop(v.p), b)

StartedIndefArr(v, b) ==
    IF v.err # Nil THEN R(v.p, b, FALSE, v.err) ELSE StepIndefArr(StatePop(v.p), b)

StartedIndefMap(v, b) ==
    IF v.err # Nil THEN R(v.p, b, FALSE, v.err) ELSE StepIndefMap(StatePop(v.p), b)

\* Parser.execStep: one step from the current frame; b is not empty
ExecStep(p, b) ==
    LET major == p.state.current.major IN
    IF major = stFail THEN R(p, b, FALSE, p.err)
    ELSE IF major = stValue THEN StepValue(p, b)
    ELSE IF major = stLen THEN StepLen(p, b)
    ELSE IF major = majorUint THEN StepUint(p, b)
    ELSE IF major = majorNeg THEN StepNeg(p, b)
    ELSE IF major = codeSingleFloat THEN StepSingleFloat(p, b)
    ELSE IF major = codeDoubleFloat THEN StepDoubleFloat(p, b)
    ELSE IF major = majorBytes THEN StepBytes(p, b)
    ELSE IF major = majorText THEN StepText(p, b)
    ELSE IF major = stStartArr
    THEN StartedArr(Visit(p, Start("OnArrayStart", p.length.current, AnyType)), b)
    ELSE IF major = majorArr THEN StepArray(p, b)
    ELSE IF major = stStartIndefArr
    THEN StartedIndefArr(Visit(p, Start("OnArrayStart", -1, AnyType)), b)
    ELSE IF major = majorArr + stIndef THEN StepIndefArr(p, b)
    ELSE IF major = stStartMap
    THEN StartedMap(Visit(p, Start("OnObjectStart", p.length.current, AnyType)), b)
    ELSE IF major = majorMap THEN StepMap(p, b)
    ELSE IF major = stStartIndefMap
    THEN StartedIndefMap(Visit(p, Start("OnObjectStart", -1, AnyType)), b)
    ELSE IF major = majorMap + stIndef THEN StepIndefMap(p, b)
    ELSE IF major = stKey THEN StepKey(p, b)
    ELSE IF major = stElem THEN StepValue(StatePop(p), b)
    ELSE R(p, b, FALSE, errTODO)

\* what feed returns: the parser afterwards, the error, and whether the
\* call returns at all
F(p, n, done, err, hang) == [p |-> p, n |-> n, done |-> done, err |-> err, hang |-> hang]

\* Parser.feedUntil: steps until the fragment is used up, a value is done
\* or an error occurs.  A step that changes neither parser nor fragment is
\* repeated for ever: the call does not return.
RECURSIVE FeedUntilFrom(_, _, _)
\* the loop of feedUntil after the step that returned r, taken from (p, b)
FeedUntilStepped(r, orig, p, b) ==
    IF Len(r.b) = 0 \/ r.done \/ r.err # Nil
    THEN F(r.p, Len(orig) - Len(r.b), r.done, r.err, FALSE)
    ELSE IF r.p = p /\ r.b = b
    THEN F(r.p, Len(orig) - Len(r.b), FALSE, Nil, TRUE)
    ELSE FeedUntilFrom(r.p, orig, r.b)

FeedUntilFrom(p, orig, b) == FeedUntilStepped(ExecStep(p, b), orig, p, b)

FeedUntil(p, b) == FeedUntilFrom(p, b, b)

\* Parser.feed
RECURSIVE CFeed(_, _)
\* the loop of feed after feedUntil returned u, called with (p, b)
CFeedStepped(u, p, b) ==
    IF u.hang \/ u.err # Nil THEN u
    ELSE IF u.n = 0 /\ u.p = p THEN F(u.p, 0, FALSE, Nil, TRUE)
    ELSE CFeed(u.p, Drop(b, u.n))

CFeed(p, b) ==
    IF Len(b) = 0 THEN F(p, 0, FALSE, Nil, FALSE)
    ELSE CFeedStepped(FeedUntil(p, b), p, b)

-----------------------------------------------------------------------------
(* The text decoder: characters, errors and the parser record *)

chQuote == 34

chPlus == 43

chComma == 44

chMinus == 45

chDot == 46

chColon == 58

chBackslash == 92

chLBracket == 91

chRBracket == 93

chLBrace == 123

chRBrace == 125

chSpace == 32

chE == 69

che == 101

chf == 102

chn == 110

cht == 116

litNull == <<110, 117, 108, 108>>

litTrue == <<116, 114, 117, 101>>

litFalse == <<102, 97, 108, 115, 101>>

errFailing == "errFailing"

errIncomplete == "errIncomplete"

errUnknownChar == "errUnknownChar"

errExpectColon == "errExpectColon"

errUnexpectedDictClose == "errUnexpectedDictClose"

errUnexpectedArrClose == "errUnexpectedArrClose"

errExpectedFieldName == "errExpectedFieldName"

errExpectedNull == "errExpectedNull"

errExpectedFalse == "errExpectedFalse"

errExpectedTrue == "errExpectedTrue"

\* the errors of the conversion primitives
errUnmarshal == "errUnmarshal"

errParseInt == "errParseInt"

errParseFloat == "errParseFloat"

\* NewParser of the text decoder
JInit(quota) ==
    [visitor       |-> NewVisitor(quota),
     err           |-> Nil,
     states        |-> <<>>,
     currentState  |-> "startState",
     literalBuffer |-> <<>>,
     isDouble      |-> FALSE,
     inEscape      |-> FALSE,
     required      |-> 0]

\* Parser.pushState
JPushState(p, next) ==
    [p EXCEPT !.states = IF p.currentState # "failedState"
                         THEN Append(@, p.currentState) ELSE @,
              !.currentState = next]

\* popState that leaves the frame it returns to on the stack
JPopStateKeep(p) ==
    IF Len(p.states) = 0
    THEN [p EXCEPT !.currentState = "failedState"]
    ELSE [p EXCEPT !.currentState = p.states[Len(p.states)]]

\* Parser.popState
JPopState(p) ==
    IF Len(p.states) = 0
    THEN [p EXCEPT !.currentState = "failedState"]
    ELSE [p EXCEPT !.currentState = p.states[Len(p.states)],
                   !.states = Take(@, Len(@) - 1)]

\* what a step function of the text decoder returns
JR(p, b, err) == [p |-> p, b |-> b, err |-> err]

isDigit(c) == 48 <= c /\ c <= 57

\* unicode.IsSpace of a byte (a Latin-1 character)
IsSpace(c) == c \in {9, 10, 11, 12, 13, 32, 133, 160}

\* trimLeft
RECURSIVE trimLeft(_)
trimLeft(b) ==
    IF b = <<>> THEN <<>>
    ELSE IF ~IsSpace(Head(b)) THEN b ELSE trimLeft(Tail(b))

-----------------------------------------------------------------------------
(* The conversion primitives: encoding/json.Unmarshal of a quoted string,  *)
(* strconv.ParseInt and strconv.ParseFloat                                 *)

isHex(c) == isDigit(c) \/ (65 <= c /\ c <= 70) \/ (97 <= c /\ c <= 102)

HexVal(c) == IF isDigit(c) THEN c - 48 ELSE IF c >= 97 THEN c - 87 ELSE c - 55

\* the character a one-letter escape stands for, -1 for an invalid escape
EscapeOf(c) ==
    IF c \in {34, 92, 47} THEN c
    ELSE IF c = 98 THEN 8 ELSE IF c = 102 THEN 12 ELSE IF c = 110 THEN 10
    ELSE IF c = 114 THEN 13 ELSE IF c = 116 THEN 9 ELSE -1

\* the text between the quotes, unescaped; ok = FALSE: a syntax error.
\* A \uXXXX escape yields its code point as one element.
RECURSIVE Unescape(_)
Unescape(s) ==
    IF s = <<>> THEN [ok |-> TRUE, str |-> <<>>]
    ELSE IF Head(s) < 32 \/ Head(s) = chQuote THEN [ok |-> FALSE, str |-> <<>>]
    ELSE IF Head(s) # chBackslash
    THEN LET r == Unescape(Tail(s)) IN [ok |-> r.ok, str |-> <<Head(s)>> \o r.str]
    ELSE IF Len(s) < 2 THEN [ok |-> FALSE, str |-> <<>>]
    ELSE IF s[2] = 117
    THEN IF Len(s) >= 6 /\ \A i \in 3..6 : isHex(s[i])
         THEN LET r == Unescape(Drop(s, 6))
                  v == ((HexVal(s[3]) * 16 + HexVal(s[4])) * 16 + HexVal(s[5])) * 16
                       + HexVal(s[6])
              IN  [ok |-> r.ok, str |-> <<v>> \o r.str]
         ELSE [ok |-> FALSE, str |-> <<>>]
    ELSE IF EscapeOf(s[2]) < 0 THEN [ok |-> FALSE, str |-> <<>>]
    ELSE LET r == Unescape(Drop(s, 2)) IN
         [ok |-> r.ok, str |-> <<EscapeOf(s[2])>> \o r.str]

\* json.Unmarshal(b, &str) of the raw literal b, quotes included
Unmarshal(b) ==
    IF Len(b) >= 2 /\ b[1] = chQuote /\ b[Len(b)] = chQuote
    THEN LET r == Unescape(SubSeq(b, 2, Len(b) - 1)) IN
         [str |-> IF r.ok THEN r.str ELSE <<>>,
          err |-> IF r.ok THEN Nil ELSE errUnmarshal]
    ELSE [str |-> <<>>, err |-> errUnmarshal]

\* the value of a run of decimal digits
RECURSIVE DigitsVal(_)
DigitsVal(s) ==
    IF s = <<>> THEN 0
    ELSE DigitsVal(Take(s, Len(s) - 1)) * 10 + (s[Len(s)] - 48)

AllDigits(s) == \A i \in 1..Len(s) : isDigit(s[i])

Unsigned(s) == IF s # <<>> /\ Head(s) \in {chPlus, chMinus} THEN Tail(s) ELSE s

\* strconv.ParseInt(s, 10, 64), for literals of at most 9 digits
ParseInt(s) ==
    LET d == Unsigned(s) IN
    IF d # <<>> /\ AllDigits(d)
    THEN [val |-> IF Head(s) = chMinus THEN 0 - DigitsVal(d) ELSE DigitsVal(d),
          err |-> Nil]
    ELSE [val |-> 0, err |-> errParseInt]

\* the longest prefix of digits of s
RECURSIVE DigitRun(_)
DigitRun(s) ==
    IF s = <<>> \/ ~isDigit(Head(s)) THEN 0 ELSE 1 + DigitRun(Tail(s))

\* strconv.ParseFloat(s, 64) accepts s: sign, digits with at most one
\* point and at least one digit, then an optional exponent with digits.
\* (Hexadecimal floats and the words inf and nan need letters that are in
\* no input of this model.)
FloatOK(s) ==
    LET d   == Unsigned(s)
        n1  == DigitRun(d)
        r1  == Drop(d, n1)
        dot == r1 # <<>> /\ Head(r1) = chDot
        r2  == IF dot THEN Tail(r1) ELSE r1
        n2  == IF dot THEN DigitRun(r2) ELSE 0
        r3  == Drop(r2, n2)
        ex  == IF r3 # <<>> /\ Head(r3) \in {chE, che} THEN Unsigned(Tail(r3)) ELSE r3
    IN  /\ n1 + n2 > 0
        /\ \/ r3 = <<>>
           \/ Head(r3) \in {chE, che} /\ ex # <<>> /\ AllDigits(ex)

\* reportNumber ignoring isDouble: every number is delivered as a float
ReportNumberAsFloat(p, b, isDouble) ==
    IF FloatOK(b) THEN Visit(p, Ev("OnFloat64", 0, b))
    ELSE [p |-> p, err |-> errParseFloat]

\* Parser.reportNumber: an integer is delivered with its value, a float
\* with the text of its literal
ReportNumber(p, b, isDouble) ==
    IF isDouble
    THEN IF FloatOK(b) THEN Visit(p, Ev("OnFloat64", 0, b))
         ELSE [p |-> p, err |-> errParseFloat]
    ELSE IF ParseInt(b).err = Nil THEN Visit(p, Ev("OnInt64", ParseInt(b).val, <<>>))
         ELSE [p |-> p, err |-> errParseInt]


-----------------------------------------------------------------------------
(* The step functions of the text decoder *)

\* stepKind that does not record how many bytes of the literal are still due
StepKindNoRequired(p, b, kind, err) ==
    LET n0   == p.required
        s0   == Drop(kind, Len(kind) - n0)
        done == ~(Len(b) < n0)
        n    == IF done THEN n0 ELSE Len(b)
        s    == Take(s0, n)
    IN  IF Take(b, n) # s
        THEN [p |-> p, b |-> b, done |-> FALSE, err |-> err]
        ELSE [p |-> IF done THEN JPopState(p) ELSE p,
              b |-> Drop(b, n), done |-> done, err |-> Nil]

\* Parser.stepKind: the rest of null, true or false
StepKind(p, b, kind, err) ==
    LET n0   == p.required
        s0   == Drop(kind, Len(kind) - n0)
        done == ~(Len(b) < n0)
        p1   == IF done THEN p ELSE [p EXCEPT !.required = n0 - Len(b)]
        n    == IF done THEN n0 ELSE Len(b)
        s    == Take(s0, n)
    IN  IF Take(b, n) # s
        THEN [p |-> p1, b |-> b, done |-> FALSE, err |-> err]
        ELSE [p |-> IF done THEN JPopState(p1) ELSE p1,
              b |-> Drop(b, n), done |-> done, err |-> Nil]

\* stepNULL / stepTRUE / stepFALSE: stepKind, then the event
StepLiteral(p, b, kind, err, e) ==
    LET k == StepKind(p, b, kind, err) IN
    IF k.done
    THEN LET v == Visit(k.p, e) IN JR(v.p, k.b, v.err)
    ELSE JR(k.p, k.b, k.err)

StepNULL(p, b) == StepLiteral(p, b, litNull, errExpectedNull, Ev("OnNil", 0, <<>>))

StepTRUE(p, b) == StepLiteral(p, b, litTrue, errExpectedTrue, Ev("OnBool", 1, <<>>))

StepFALSE(p, b) == StepLiteral(p, b, litFalse, errExpectedFalse, Ev("OnBool", 0, <<>>))

\* the loop of doString over buf: the index of the first quote that is not
\* escaped (0: there is none) and the escape flag afterwards
RECURSIVE ScanString(_, _, _)
ScanString(buf, i, inEscape) ==
    IF i > Len(buf) THEN [stop |-> 0, inEscape |-> inEscape]
    ELSE IF inEscape THEN ScanString(buf, i + 1, FALSE)
    ELSE IF buf[i] = chQuote THEN [stop |-> i, inEscape |-> FALSE]
    ELSE ScanString(buf, i + 1, buf[i] = chBackslash)

\* Parser.doString: a string literal, up to and with its closing quote
DoString(p, b) ==
    LET atStart == Len(p.literalBuffer) = 0
        buf     == IF atStart THEN Tail(b) ELSE b
        sc      == ScanString(buf, 1, p.inEscape)
        p1      == [p EXCEPT !.inEscape = sc.inEscape]
        stop    == IF atStart THEN sc.stop + 1 ELSE sc.stop
        lit     == p1.literalBuffer \o Take(b, stop)
        u       == Unmarshal(lit)
    IN  IF sc.stop = 0
        THEN [p |-> [p1 EXCEPT !.literalBuffer = @ \o b], str |-> <<>>,
              done |-> FALSE, b |-> <<>>, err |-> Nil]
        ELSE [p |-> [p1 EXCEPT !.literalBuffer = <<>>], str |-> u.str,
              done |-> TRUE, b |-> Drop(b, stop), err |-> u.err]

\* Parser.stepString
StepString(p, b) ==
    LET d == DoString(p, b) IN
    IF d.done /\ d.err = Nil
    THEN LET v == Visit(JPopState(d.p), Ev("OnString", 0, d.str)) IN JR(v.p, d.b, v.err)
    ELSE JR(d.p, d.b, d.err)

\* Parser.stepDictKey
StepDictKey(p, b) ==
    LET d == DoString(p, b) IN
    IF d.done /\ d.err = Nil
    THEN LET v == Visit([d.p EXCEPT !.currentState = "dictFieldValueSep"],
                        Ev("OnKey", 0, d.str))
         IN  JR(v.p, d.b, v.err)
    ELSE JR(d.p, d.b, d.err)

isStopChar(c) == c \in {32, 9, 12, 10, 13, chComma, chRBracket, chRBrace}

\* the loop of stepNumber: the index of the first stop character (0: there
\* is none) and the isDouble flag afterwards
RECURSIVE ScanNumber(_, _, _)
ScanNumber(b, i, isDouble) ==
    IF i > Len(b) THEN [stop |-> 0, isDouble |-> isDouble]
    ELSE IF isStopChar(b[i]) THEN [stop |-> i, isDouble |-> isDouble]
    ELSE ScanNumber(b, i + 1, isDouble \/ b[i] \in {chDot, che, chE})

\* stepNumber without the carry: the part of the number buffered by earlier
\* calls is forgotten when the stop character arrives
StepNumberNoCarry(p, b) ==
    LET sc == ScanNumber(b, 1, p.isDouble)
        p1 == [p EXCEPT !.isDouble = sc.isDouble]
        v  == ReportNumber([p1 EXCEPT !.literalBuffer = <<>>],
                           Take(b, sc.stop - 1), p1.isDouble)
    IN  IF sc.stop = 0
        THEN JR([p1 EXCEPT !.literalBuffer = @ \o b], <<>>, Nil)
        ELSE JR(JPopState(v.p), Drop(b, sc.stop - 1), v.err)

\* Parser.stepNumber: a number, up to but without its stop character
StepNumber(p, b) ==
    LET sc == ScanNumber(b, 1, p.isDouble)
        p1 == [p EXCEPT !.isDouble = sc.isDouble]
        lit == p1.literalBuffer \o Take(b, sc.stop - 1)
        v  == ReportNumber([p1 EXCEPT !.literalBuffer = <<>>], lit, p1.isDouble)
    IN  IF sc.stop = 0
        THEN JR([p1 EXCEPT !.literalBuffer = @ \o b], <<>>, Nil)
        ELSE JR(JPopState(v.p), Drop(b, sc.stop - 1), v.err)

\* Parser.stepValue: the first character of a value
JStepValue(p, b0, retState) ==
    LET b  == trimLeft(b0)
        c  == Head(b)
        p1 == [p EXCEPT !.currentState = retState]
    IN  IF Len(b) = 0 THEN JR(p, b, Nil)
        ELSE IF c = chLBrace
        THEN LET v == Visit(JPushState(p1, "dictState"), Start("OnObjectStart", -1, AnyType))
             IN  JR(v.p, Tail(b), v.err)
        ELSE IF c = chLBracket
        THEN LET v == Visit(JPushState(p1, "arrState"), Start("OnArrayStart", -1, AnyType))
             IN  JR(v.p, Tail(b), v.err)
        ELSE IF c = chn
        THEN StepNULL([JPushState(p1, "nullState") EXCEPT !.required = 3], Tail(b))
        ELSE IF c = chf
        THEN StepFALSE([JPushState(p1, "falseState") EXCEPT !.required = 4], Tail(b))
        ELSE IF c = cht
        THEN StepTRUE([JPushState(p1, "trueState") EXCEPT !.required = 3], Tail(b))
        ELSE IF c = chQuote
        THEN StepString([JPushState([p1 EXCEPT !.literalBuffer = <<>>], "stringState")
                            EXCEPT !.inEscape = FALSE], b)
        ELSE IF ~(c \in {chMinus, chPlus, chDot} \/ isDigit(c))
        THEN JR(p1, b, errUnknownChar)
        ELSE StepNumber([JPushState([p1 EXCEPT !.literalBuffer = <<>>], "numberState")
                            EXCEPT !.isDouble = FALSE], b)

\* Parser.stepStart
StepStart(p, b) == JStepValue(p, b, p.currentState)

\* Parser.endDict
EndDict(p, b) ==
    LET v == Visit(JPopState(p), Ev("OnObjectFinished", 0, <<>>)) IN JR(v.p, Tail(b), v.err)

\* Parser.endArray
EndArray(p, b) ==
    LET v == Visit(JPopState(p), Ev("OnArrayFinished", 0, <<>>)) IN JR(v.p, Tail(b), v.err)

\* stepDict that lets a brace close the object behind a comma as well
StepDictTrailingComma(p, b0, allowEnd) ==
    LET b == trimLeft(b0) IN
    IF Len(b) = 0 THEN JR(p, b, Nil)
    ELSE IF Head(b) = chRBrace THEN EndDict(p, b)
    ELSE IF Head(b) = chQuote THEN JR([p EXCEPT !.currentState = "dictFieldState"], b, Nil)
    ELSE JR(p, <<>>, errExpectedFieldName)

\* Parser.stepDict
StepDict(p, b0, allowEnd) ==
    LET b == trimLeft(b0) IN
    IF Len(b) = 0 THEN JR(p, b, Nil)
    ELSE IF Head(b) = chRBrace
    THEN IF ~allowEnd THEN JR(p, <<>>, errUnexpectedDictClose) ELSE EndDict(p, b)
    ELSE IF Head(b) = chQuote THEN JR([p EXCEPT !.currentState = "dictFieldState"], b, Nil)
    ELSE JR(p, <<>>, errExpectedFieldName)

\* Parser.stepDictValueEnd
StepDictValueEnd(p, b0) ==
    LET b == trimLeft(b0) IN
    IF Len(b) = 0 THEN JR(p, b, Nil)
    ELSE IF Head(b) = chRBrace THEN EndDict(p, b)
    ELSE IF Head(b) = chComma
    THEN JR([p EXCEPT !.currentState = "dictNextFieldState"], Tail(b), Nil)
    ELSE JR(p, <<>>, errUnknownChar)

\* Parser.stepArray
JStepArray(p, b0, allowEnd) ==
    LET b == trimLeft(b0) IN
    IF Len(b) = 0 THEN JR(p, b, Nil)
    ELSE IF Head(b) = chRBracket
    THEN IF ~allowEnd THEN JR(p, <<>>, errUnexpectedArrClose) ELSE EndArray(p, b)
    ELSE JR([p EXCEPT !.currentState = "arrStateValue"], b, Nil)

\* Parser.stepArrValueEnd
StepArrValueEnd(p, b0) ==
    LET b == trimLeft(b0) IN
    IF Len(b) = 0 THEN JR(p, b, Nil)
    ELSE IF Head(b) = chRBracket THEN EndArray(p, b)
    ELSE IF Head(b) = chComma
    THEN JR([p EXCEPT !.currentState = "arrStateValue"], Tail(b), Nil)
    ELSE JR(p, <<>>, errUnknownChar)

\* the dictFieldValueSep case of Parser.feed
StepValueSep(p, b0) ==
    LET b == trimLeft(b0) IN
    IF Len(b) > 0
    THEN JR([p EXCEPT !.currentState = "dictFieldValue"], Tail(b),
            IF Head(b) # chColon THEN errExpectColon ELSE Nil)
    ELSE JR(p, b, Nil)

\* one round of the loop of Parser.feed: the step of the current state
JStep(p, b) ==
    LET s == p.currentState IN
    IF s = "startState" THEN StepStart(p, b)
    ELSE IF s = "dictState" THEN StepDict(p, b, TRUE)
    ELSE IF s = "dictNextFieldState" THEN StepDict(p, b, FALSE)
    ELSE IF s = "dictFieldState" THEN StepDictKey(p, b)
    ELSE IF s = "dictFieldValueSep" THEN StepValueSep(p, b)
    ELSE IF s = "dictFieldValue" THEN JStepValue(p, b, "dictFieldStateEnd")
    ELSE IF s = "dictFieldStateEnd" THEN StepDictValueEnd(p, b)
    ELSE IF s = "arrState" THEN JStepArray(p, b, TRUE)
    ELSE IF s = "arrStateValue" THEN JStepValue(p, b, "arrStateNext")
    ELSE IF s = "arrStateNext" THEN StepArrValueEnd(p, b)
    ELSE IF s = "nullState" THEN StepNULL(p, b)
    ELSE IF s = "trueState" THEN StepTRUE(p, b)
    ELSE IF s = "falseState" THEN StepFALSE(p, b)
    ELSE IF s = "stringState" THEN StepString(p, b)
    ELSE IF s = "numberState" THEN StepNumber(p, b)
    ELSE JR(p, b, errFailing)

\* Parser.feed of the text decoder
RECURSIVE JFeed(_, _)
\* the loop of feed after the step that returned r
JFeedStepped(r) ==
    IF r.err # Nil THEN [p |-> r.p, err |-> r.err] ELSE JFeed(r.p, r.b)

JFeed(p, b) ==
    IF Len(b) = 0 THEN [p |-> p, err |-> Nil]
    ELSE IF p.currentState = "failedState" THEN [p |-> p, err |-> p.err]
    ELSE JFeedStepped(JStep(p, b))

\* the second half of finalize looking one frame too deep: a value open
\* at the top level is not noticed
FinalizeStackDeep(p) ==
    IF Len(p.states) > 1 /\ p.currentState # "startState"
    THEN [p |-> p, err |-> errIncomplete]
    ELSE [p |-> p, err |-> Nil]

\* the second half of Parser.finalize
FinalizeStack(p) ==
    IF Len(p.states) > 0 /\ p.currentState # "startState"
    THEN [p |-> p, err |-> errIncomplete]
    ELSE [p |-> p, err |-> Nil]

\* Parser.finalize after reportNumber returned v
FinalizeReported(v) ==
    IF v.err # Nil THEN [p |-> v.p, err |-> v.err] ELSE FinalizeStack(JPopState(v.p))

\* Parser.finalize
Finalize(p) ==
    IF p.currentState = "numberState"
    THEN FinalizeReported(ReportNumber(p, p.literalBuffer, p.isDouble))
    ELSE FinalizeStack(p)

-----------------------------------------------------------------------------
(* The byte streams of the model *)

\* the bytes of the exhaustively enumerated binary streams: the integer 1,
\* the head of a 16 bit integer, a text string and a byte string of two
\* bytes, an array of two elements, a map of one pair, the head of an
\* indefinite-length array, and the break byte
CAlphabet == {1, 25, 98, 66, 130, 161, 159, 255}

\* longer binary streams, one for each construct of the format
CScenarios ==
    { <<161, 97, 97, 1>>,                         \* {"a": 1}
      <<161, 97, 97, 1, 1>>,
      <<128>>, <<128, 1>>,                        \* []
      <<159, 1, 2, 255>>,                         \* [_ 1, 2]
      <<191, 97, 97, 1, 255, 1>>,                 \* {_ "a": 1}, 1
      <<250, 63, 128, 0, 0, 1>>,                  \* float32 1.0, then 1
      <<251, 63, 240, 0, 0, 0, 0, 0, 0, 1>>,      \* float64 1.0, then 1
      <<56, 99>>, <<56, 200>>, <<56, 127>>, <<56, 128>>, <<56, 255>>,
      <<57, 0, 99>>, <<57, 128, 0>>, <<57, 255, 255>>,
      <<58, 0, 0, 0, 99>>, <<59, 0, 0, 0, 0, 0, 0, 0, 99>>,
      <<35>>, <<55>>, <<24, 200>>, <<25, 1, 0>>,
      <<26, 0, 1, 0, 0>>, <<27, 255, 255, 255, 255, 255, 255, 255, 255>>,
      <<28, 1>>, <<29, 1>>, <<30, 1>>, <<31, 1>>, <<60, 1>>, <<63, 1>>,
      <<92, 1>>, <<124, 1>>, <<156, 1>>,          \* reserved minors
      <<192, 1>>, <<249, 0, 0, 1>>, <<95, 1>>, <<127, 1>>, <<255, 1>>,
      <<161, 1, 1, 1>>, <<161, 127, 1>>,          \* a key that is no text
      <<129, 98, 97, 97, 1, 1>>,                  \* ["aa"], 1, 1
      <<130, 96, 1, 1, 1>>,                       \* ["", 1], 1, 1
      <<129, 97, 97, 1>>,                         \* ["a"], 1
      <<129, 129, 1, 1>>,                         \* [[1]], 1
      <<129, 65, 7, 1>>,                          \* [h'07'], 1
      <<161, 97, 97, 98, 97, 97, 1, 1>>,          \* {"a": "aa"}, 1, 1
      <<121, 0, 2, 97, 98, 1>>,                   \* "ab" (16 bit length), 1
      <<90, 0, 0, 0, 2, 7, 8, 1>>,                \* h'0708' (32 bit length), 1
      <<152, 1, 1, 1>>,                           \* [1] (8 bit length), 1
      <<184, 1, 97, 97, 1, 1>>,                   \* {"a": 1} (8 bit length), 1
      <<244, 245, 246, 247, 1>>,                  \* false, true, null, undefined
      <<97, 97, 1>>, <<96, 1>>,
      <<191, 96, 255>>, <<191, 255, 1>>,          \* {_ "": break   {_ }, 1
      <<191, 96, 1, 255>>,                        \* {_ "": 1}
      <<159, 159, 255, 255>>,                     \* [_ [_ ]]
      <<159, 191, 255, 255>>,                     \* [_ {_ }]
      <<191, 96, 159, 1, 255, 255>>,              \* {_ "": [_ 1]}
      <<160, 255>>, <<161, 96, 255, 96, 1>>,      \* {}, break   {"": break, "": 1
      <<66, 7, 8, 1>>, <<64, 1>>,                 \* h'0708', 1   h'', 1
      <<88, 2, 7, 8, 1>>, <<67, 1, 2, 3, 1>> }    \* h'0708' (8 bit length), 1

CDocs == SeqsUpTo(CAlphabet, MaxCDocLen) \cup CScenarios

\* the characters of the exhaustively enumerated text streams:
\* " \ [ ] , 1 - e and the space
JAlphabet == {chQuote, chBackslash, chLBracket, chRBracket, chComma, 49,
              chMinus, che, chSpace}

\* longer text streams
JScenarios ==
    { <<123, 34, 97, 34, 58, 91, 49, 44, 50, 44, 51, 93, 44, 34, 98, 34, 58,
        116, 114, 117, 101, 125>>,                \* {"a":[1,2,3],"b":true}
      <<116, 114, 117, 101>>,                     \* true
      <<110, 117, 108, 108>>,                     \* null
      <<102, 97, 108, 115, 101>>,                 \* false
      <<91, 116, 114, 117, 101, 44, 110, 117, 108, 108, 93>>,  \* [true,null]
      <<123, 34, 97, 92, 34, 34, 58, 45, 49, 46, 53, 101, 49, 125>>, \* {"a\"":-1.5e1}
      <<91, 34, 97, 92, 34, 34, 44, 45, 49, 46, 53, 101, 49, 44, 116, 114, 117,
        101, 93>>,                                \* ["a\"",-1.5e1,true]
      <<123, 125, 32>>, <<91, 93>>,               \* {}  []
      <<123, 34, 97, 34, 32, 58, 32, 34, 92, 92, 34, 32, 125>>, \* {"a" : "\\" }
      <<43, 49, 50, 32>>, <<49, 46, 53>>, <<46>>, \* +12  1.5  .
      <<123, 34, 97, 34, 49, 125>>,               \* {"a"1}
      <<123, 34, 97, 34, 58, 49, 44, 125>>,       \* {"a":1,}
      <<123, 49>>, <<123, 34, 97, 34, 58, 49, 93>>, \* {1  {"a":1]
      <<116, 114, 49, 101>>, <<110, 49>>, <<102, 97, 49>>, \* tr1e n1 fa1
      <<34, 92, 117, 48, 48, 52, 49, 34>>,        \* "A"
      <<34, 92, 120, 34, 32>>,                    \* "\x"
      <<91, 123, 125, 44, 91, 93, 93>>,           \* [{},[]]
      <<123, 34, 97, 34, 58, 49, 125, 49, 32>>,   \* {"a":1}1
      <<91, 49, 125>>, <<91, 125>>, <<123, 93>>,  \* [1}  [}  {]
      <<123, 34, 97, 34, 58, 125>>,               \* {"a":}
      <<123, 34, 97, 34, 58, 49, 32, 34, 98, 34>> }  \* {"a":1 "b"

JDocs == SeqsUpTo(JAlphabet, MaxJDocLen) \cup JScenarios

-----------------------------------------------------------------------------
(* The calls of a caller *)

\* the consumer of Init never reports an error
Unlimited == 0 - 1

NoCall == [call |-> "none", n |-> 0, err |-> Nil]

\* the next n bytes of the stream
Fragment(n) == SubSeq(doc, pos + 1, pos + n)

Sizes == 1..(Len(doc) - pos)

FirstError(err) == IF failure = Nil THEN err ELSE failure

\* Parser.Write of the binary decoder, feed having returned r
CWritten(r, n) ==
    /\ cp' = IF r.hang THEN r.p ELSE [r.p EXCEPT !.err = r.err]
    /\ ret' = [call |-> "Write",
               n    |-> IF r.hang \/ r.err # Nil THEN 0 ELSE n,
               err  |-> IF r.hang THEN Diverges ELSE r.err]
    /\ failure' = FirstError(IF r.hang THEN Nil ELSE r.err)
    /\ pos' = pos + n
    /\ calls' = calls + 1
    /\ UNCHANGED <<doc, fin, jp, dec>>

\* Parser.Write of the binary decoder
CWrite(n) ==
    /\ ret.err # Diverges
    /\ CWritten(CFeed(cp, Fragment(n)), n)

\* Parser.Parse of the binary decoder, feed having returned r
CParsed(r, n) ==
    /\ cp' = r.p
    /\ ret' = [call |-> "Parse", n |-> 0,
               err  |-> IF r.hang THEN Diverges ELSE r.err]
    /\ failure' = FirstError(IF r.hang THEN Nil ELSE r.err)
    /\ pos' = pos + n
    /\ calls' = calls + 1
    /\ UNCHANGED <<doc, fin, jp, dec>>

\* Parser.Parse of the binary decoder
CParse(n) ==
    /\ ret.err # Diverges
    /\ CParsed(CFeed(cp, Fragment(n)), n)

\* Parser.Write of the text decoder, feed having returned r
JWritten(r, n) ==
    /\ jp' = [r.p EXCEPT !.err = r.err]
    /\ ret' = [call |-> "Write", n |-> IF r.err # Nil THEN 0 ELSE n, err |-> r.err]
    /\ failure' = FirstError(r.err)
    /\ fin' = IF fin = "no" THEN "no" ELSE "past"
    /\ pos' = pos + n
    /\ calls' = calls + 1
    /\ UNCHANGED <<doc, cp, dec>>

\* Parser.Write of the text decoder
JWrite(n) ==
    /\ fin # "eof"
    /\ JWritten(JFeed(jp, Fragment(n)), n)

\* Parser.Parse of the text decoder as a function: feed, then finalize
\* unless feed failed; p.err is what the call returns
ParseFed(r) ==
    IF r.err # Nil THEN [p |-> [r.p EXCEPT !.err = r.err], err |-> r.err, fed |-> FALSE]
    ELSE [p   |-> [Finalize(r.p).p EXCEPT !.err = Finalize(r.p).err],
          err |-> Finalize(r.p).err, fed |-> TRUE]

JParseBytes(p, b) == ParseFed(JFeed(p, b))

\* Parser.Parse of the text decoder having returned r
JParsed(r, n) ==
    /\ jp' = r.p
    /\ ret' = [call |-> "Parse", n |-> 0, err |-> r.err]
    /\ failure' = FirstError(r.err)
    /\ fin' = IF fin = "no" /\ r.fed THEN "just"
              ELSE IF fin = "no" THEN "no" ELSE "past"
    /\ pos' = pos + n
    /\ calls' = calls + 1
    /\ UNCHANGED <<doc, cp, dec>>

\* Parser.Parse of the text decoder
JParse(n) ==
    /\ fin # "eof"
    /\ JParsed(JParseBytes(jp, Fragment(n)), n)

\* finalize having returned f
JFinalized(f) ==
    /\ jp' = f.p
    /\ ret' = [call |-> "finalize", n |-> 0, err |-> f.err]
    /\ failure' = FirstError(f.err)
    /\ fin' = "eof"
    /\ calls' = calls + 1
    /\ UNCHANGED <<doc, pos, cp, dec>>

\* the end of ParseReader: every Write returned nil, the reader is at its
\* end, finalize decides the result and the parser is dropped
JFinalize ==
    /\ fin = "no"
    /\ failure = Nil
    /\ JFinalized(Finalize(jp))

InitC ==
    /\ doc \in CDocs
    /\ pos = 0
    /\ calls = 0
    /\ ret = NoCall
    /\ failure = Nil
    /\ fin = "no"
    /\ jp = JInit(Unlimited)
    /\ cp = CInit(Unlimited)
    /\ dec = "cborl"

InitJ ==
    /\ doc \in JDocs
    /\ pos = 0
    /\ calls = 0
    /\ ret = NoCall
    /\ failure = Nil
    /\ fin = "no"
    /\ jp = JInit(Unlimited)
    /\ cp = CInit(Unlimited)
    /\ dec = "json"

NextC ==
    \/ \E n \in Sizes : CWrite(n)
    \/ \E n \in Sizes : CParse(n)

NextJ ==
    \/ \E n \in Sizes : JWrite(n)
    \/ \E n \in Sizes : JParse(n)
    \/ JFinalize

\* the binary decoder fed a stream in fragments
SpecC == InitC /\ [][NextC]_vars

\* the text decoder fed a stream in fragments
SpecJ == InitJ /\ [][NextJ]_vars

\* the consumers of Init: the one that never reports an error, and those
\* that report an error at their (q+1)-th event, q = 0..MaxQuota
Quotas == {Unlimited} \cup 0..MaxQuota

\* the streams given to a decoder whose consumer may fail: the scenarios,
\* and the enumerated streams but for the longest ones
QCDocs == SeqsUpTo(CAlphabet, MaxCDocLen - 1) \cup CScenarios

QJDocs == SeqsUpTo(JAlphabet, MaxJDocLen - 1) \cup JScenarios

\* a decoder of either package, constructed with any of the consumers
Init ==
    /\ pos = 0
    /\ calls = 0
    /\ ret = NoCall
    /\ failure = Nil
    /\ fin = "no"
    /\ \E q \in Quotas :
           \/ dec = "cborl" /\ doc \in QCDocs /\ cp = CInit(q) /\ jp = JInit(Unlimited)
           \/ dec = "json" /\ doc \in QJDocs /\ jp = JInit(q) /\ cp = CInit(Unlimited)

Next ==
    \/ dec = "cborl" /\ NextC
    \/ dec = "json" /\ NextJ

\* either decoder fed a stream in fragments, with a consumer that may fail
Spec == Init /\ [][Next]_vars


-----------------------------------------------------------------------------
(* What the claims speak about *)

\* the events the consumer of the text / binary decoder has received
jlog == jp.visitor.log

clog == cp.visitor.log

\* the bytes handed to the decoder so far
Fed == Take(doc, pos)

\* the whole input so far fed to a fresh decoder in one call
JWhole == JFeed(JInit(Unlimited), Fed)

CWhole == CFeed(CInit(Unlimited), Fed)

\* The wire format of the binary decoder, written down from RFC 7049 and
\* not from the decoder: the number of bytes that follow a head byte (-1:
\* a reserved or indefinite minor), the argument of a head, and the index
\* of the last byte of the item that begins at s[i] (0: there is no
\* complete well-formed item).
HeadWidth(c) ==
    IF Minor(c) < 24 THEN 0 ELSE IF Minor(c) = 24 THEN 1
    ELSE IF Minor(c) = 25 THEN 2 ELSE IF Minor(c) = 26 THEN 4
    ELSE IF Minor(c) = 27 THEN 8 ELSE 0 - 1

HeadBytes(s, i) == SubSeq(s, i + 1, i + HeadWidth(s[i]))

HeadArg(s, i) == IF Minor(s[i]) < 24 THEN Minor(s[i]) ELSE BigEndian(HeadBytes(s, i))

HeadOK(s, i) == HeadWidth(s[i]) >= 0 /\ i + HeadWidth(s[i]) <= Len(s)

RECURSIVE ItemEnd(_, _)
RECURSIVE ItemsEnd(_, _, _)
RECURSIVE IndefEnd(_, _)
ItemEnd(s, i) ==
    IF i > Len(s) THEN 0
    ELSE IF Major(s[i]) \in {majorUint, majorNeg}
    THEN IF HeadOK(s, i) THEN i + HeadWidth(s[i]) ELSE 0
    ELSE IF Major(s[i]) \in {majorBytes, majorText}
    THEN IF HeadOK(s, i) /\ i + HeadWidth(s[i]) + HeadArg(s, i) <= Len(s)
         THEN i + HeadWidth(s[i]) + HeadArg(s, i) ELSE 0
    ELSE IF Major(s[i]) \in {majorArr, majorMap}
    THEN IF Minor(s[i]) = lenIndef THEN IndefEnd(s, i + 1)
         ELSE IF HeadOK(s, i)
         THEN ItemsEnd(s, i + HeadWidth(s[i]) + 1,
                       IF Major(s[i]) = majorMap THEN 2 * HeadArg(s, i)
                       ELSE HeadArg(s, i))
         ELSE 0
    ELSE IF s[i] \in {codeFalse, codeTrue, codeNull, codeUndef} THEN i
    ELSE IF s[i] = codeSingleFloat THEN IF i + 4 <= Len(s) THEN i + 4 ELSE 0
    ELSE IF s[i] = codeDoubleFloat THEN IF i + 8 <= Len(s) THEN i + 8 ELSE 0
    ELSE 0

\* n items from s[i] on (i >= 2): the index of the last byte, 0 for none
ItemsEnd(s, i, n) ==
    IF n = 0 THEN i - 1
    ELSE IF ItemEnd(s, i) = 0 THEN 0
    ELSE ItemsEnd(s, ItemEnd(s, i) + 1, n - 1)

\* items from s[i] on up to the break byte
IndefEnd(s, i) ==
    IF i > Len(s) THEN 0
    ELSE IF s[i] = codeBreak THEN i
    ELSE IF ItemEnd(s, i) = 0 THEN 0
    ELSE IndefEnd(s, ItemEnd(s, i) + 1)

\* s is one complete array or map of definite length, and nothing else
IsDefiniteAggregate(s) ==
    /\ s # <<>>
    /\ Major(s[1]) \in {majorArr, majorMap}
    /\ Minor(s[1]) # lenIndef
    /\ ItemEnd(s, 1) = Len(s)

IsStart(e) == e.ev \in {"OnArrayStart", "OnObjectStart"}

IsFinish(e) == e.ev \in {"OnArrayFinished", "OnObjectFinished"}

IsKey(e) == e.ev \in {"OnKeyRef", "OnKey"}

\* The events that follow a start event, from log[j] on: the numbers of
\* the keys and of the values delivered directly inside the aggregate, and
\* whether its finish event was delivered.
RECURSIVE Inside(_, _, _, _, _)
Inside(log, j, depth, keys, vals) ==
    IF j > Len(log) THEN [closed |-> FALSE, keys |-> keys, vals |-> vals]
    ELSE IF IsFinish(log[j])
    THEN IF depth = 0 THEN [closed |-> TRUE, keys |-> keys, vals |-> vals]
         ELSE Inside(log, j + 1, depth - 1, keys, vals)
    ELSE IF IsStart(log[j])
    THEN Inside(log, j + 1, depth + 1, keys, IF depth = 0 THEN vals + 1 ELSE vals)
    ELSE IF depth > 0 THEN Inside(log, j + 1, depth, keys, vals)
    ELSE IF IsKey(log[j]) THEN Inside(log, j + 1, depth, keys + 1, vals)
    ELSE Inside(log, j + 1, depth, keys, vals + 1)

-----------------------------------------------------------------------------
(* C1 .. C10 *)

\* C1: text decoder, fail-sticky.  After a Write call has returned an
\* error, the next call (and so every later one) returns that same error,
\* accepts no byte and delivers no event, whatever bytes it is given.
C1_TextFailSticky ==
    [][(ret.call = "Write" /\ ret.err # Nil) =>
         /\ ret'.err = ret.err
         /\ ret'.n = 0
         /\ jlog' = jlog]_vars

\* C2: binary decoder, fail-sticky.  Once a call has returned an error,
\* every later Write or Parse call returns that same error, accepts no byte
\* and delivers no event.
C2_BinaryFailSticky ==
    [][failure # Nil =>
         /\ ret'.err = failure
         /\ ret'.n = 0
         /\ clog' = clog]_vars

\* C3: text decoder, chunk invariance.  When the input fed so far is
\* accepted by one feed call on a fresh decoder, feeding it in any
\* fragments has failed nowhere and has delivered the same events; and
\* finalizing after the fragments (by finalize, or by a last Parse call)
\* delivers the same events and returns the same result as finalizing
\* after that one call.
C3_TextChunkInvariance ==
    JWhole.err = Nil =>
        /\ fin = "no" => failure = Nil /\ jlog = JWhole.p.visitor.log
        /\ fin \in {"just", "eof"} =>
               /\ jlog = Finalize(JWhole.p).p.visitor.log
               /\ ret.err = Finalize(JWhole.p).err

\* the array ["a\"",-1.5e1,true] fed one byte at a time and finalized
C3_Witness ==
    /\ doc = <<91,34,97,92,34,34,44,45,49,46,53,101,49,44,116,114,117,101,93>>
    /\ calls = Len(doc) + 1
    /\ fin = "eof"
    /\ ret.err = Nil
    /\ Len(jlog) = 5

\* the input up to and with the head byte of the field the binary decoder
\* is collecting
BeforeField == Take(doc, pos - Len(cp.buffer))

\* C4: binary decoder, chunk invariance.  When the input fed so far is
\* accepted by one feed call on a fresh decoder, feeding it in any
\* fragments has failed nowhere and has delivered the same events; and
\* while the bytes of a multi-byte field are being collected, no event has
\* been delivered since the head byte of that field.
C4_BinaryChunkInvariance ==
    (CWhole.err = Nil /\ ~CWhole.hang) =>
        /\ failure = Nil
        /\ ret.err # Diverges
        /\ clog = CWhole.p.visitor.log
        /\ Len(cp.buffer) > 0 =>
               clog = CFeed(CInit(Unlimited), BeforeField).p.visitor.log

\* a text string with a 16 bit length, then an integer, fed one byte at a
\* time: the calls end inside the length and inside the body
C4_Witness ==
    /\ doc = <<121, 0, 2, 97, 98, 1>>
    /\ calls = 6
    /\ pos = 6
    /\ failure = Nil
    /\ clog = <<Ev("OnStringRef", 0, <<97, 98>>), Ev("OnUint8", 1, <<>>)>>

\* the start event of the aggregate that begins with the head byte s[1]
StartOf(s) ==
    Start(IF Major(s[1]) = majorMap THEN "OnObjectStart" ELSE "OnArrayStart",
          HeadArg(s, 1), AnyType)

\* C5: binary decoder, definite-length aggregates are self-terminating.
\* When the input is one complete array or map of definite length and its
\* last byte has been fed without an error, the consumer has received the
\* start event with the declared count and the matching finish event.
C5_SelfTerminating ==
    (IsDefiniteAggregate(doc) /\ pos = Len(doc)
        /\ failure = Nil /\ ret.err # Diverges) =>
        /\ clog # <<>>
        /\ clog[1] = StartOf(doc)
        /\ Inside(clog, 2, 0, 0, 0).closed

\* the start event of an array or map of definite length
IsDefiniteStart(e) == IsStart(e) /\ e.s = AnyType /\ e.n >= 0

\* the values (for a map: the keys and the values) log delivers inside the
\* aggregate that starts at log[j] are not more than it declares, and are
\* as many as it declares when its finish event is there
CountedAt(log, j) ==
    LET r == Inside(log, j + 1, 0, 0, 0)
        n == log[j].n
    IN  /\ r.vals <= n
        /\ r.closed => r.vals = n
        /\ log[j].ev = "OnArrayStart" => r.keys = 0
        /\ log[j].ev = "OnObjectStart" =>
               /\ r.keys <= n
               /\ r.closed => r.keys = n

\* C6: binary decoder, element counting.  As long as no call has failed,
\* an array declared with N elements (a map declared with N pairs) has
\* delivered at most N values (N keys and N values) between its start
\* event and its finish event, and exactly N once the finish event is
\* delivered.
C6_ElementCounting ==
    (failure = Nil /\ ret.err # Diverges) =>
        \A j \in 1..Len(clog) : IsDefiniteStart(clog[j]) => CountedAt(clog, j)

\* the bytes a float token of the given head byte occupies after its head
FloatWidth(c) == IF c = codeSingleFloat THEN 4 ELSE 8

\* what one feed call on a fresh decoder makes of the fed bytes that
\* follow the first n
CRest(n) == CFeed(CInit(Unlimited), Drop(Fed, n))

\* C7: binary decoder, floats.  When the input begins with a float token
\* and its 4 (8) bytes have been fed without an error, the first event is
\* the float32 (float64) event with those bytes as its bit pattern, and
\* the events after it are those of the bytes that follow the float.
C7_Floats ==
    (doc # <<>> /\ doc[1] \in {codeSingleFloat, codeDoubleFloat}
        /\ pos >= 1 + FloatWidth(doc[1])
        /\ failure = Nil /\ ret.err # Diverges) =>
        /\ clog # <<>>
        /\ clog[1] = Ev(IF doc[1] = codeSingleFloat THEN "OnFloat32" ELSE "OnFloat64",
                        0, SubSeq(doc, 2, 1 + FloatWidth(doc[1])))
        /\ (CRest(1 + FloatWidth(doc[1])).err = Nil
                /\ ~CRest(1 + FloatWidth(doc[1])).hang) =>
               Tail(clog) = CRest(1 + FloatWidth(doc[1])).p.visitor.log

\* s is one integer token: a head byte of major type 0 or 1 and the bytes
\* of its argument
IsIntToken(s) ==
    /\ s # <<>>
    /\ Major(s[1]) \in {majorUint, majorNeg}
    /\ HeadWidth(s[1]) >= 0
    /\ Len(s) = 1 + HeadWidth(s[1])

\* the event e carries the value of the integer token s: the argument
\* itself for major type 0, and -1 - argument for major type 1.  Values of
\* 32 and 64 bits are compared as big-endian two's complement digits:
\* those of -1 - argument are the inverted digits of the argument, and
\* the value fits the width when its sign bit is set.
CarriesValueOf(e, s) ==
    IF Major(s[1]) = majorUint
    THEN /\ e.ev \in {"OnUint8", "OnUint16", "OnUint32", "OnUint64"}
         /\ IF HeadWidth(s[1]) <= 2 THEN e.n = HeadArg(s, 1)
            ELSE e.s = HeadBytes(s, 1)
    ELSE /\ e.ev \in {"OnInt8", "OnInt16", "OnInt32", "OnInt64"}
         /\ IF HeadWidth(s[1]) <= 2 THEN e.n = 0 - 1 - HeadArg(s, 1)
            ELSE e.s = InvBytes(HeadBytes(s, 1)) /\ e.s[1] >= 128

\* C8: binary decoder, numeric exactness.  When the input is one integer
\* token and it has been fed without an error, exactly one event has been
\* delivered, and it carries the encoded value of an unsigned token and
\* -1 - the encoded value of a negative token.
C8_NumericExactness ==
    (IsIntToken(doc) /\ pos = Len(doc) /\ failure = Nil /\ ret.err # Diverges) =>
        /\ Len(clog) = 1
        /\ CarriesValueOf(clog[1], doc)

\* C9: termination of feed.  Every Write or Parse call of the binary
\* decoder returns: no call is left running in feedUntil, executing steps
\* that neither consume a byte nor change the decoder.
C9_FeedTerminates == ret.err # Diverges

\* the frames of the text decoder, the current one last
Frames(p) == p.states \o <<p.currentState>>

\* an aggregate, a string or one of null, true, false is still open
Open(p) == \E i \in 1..Len(Frames(p)) : Frames(p)[i] \notin {"startState", "numberState"}

\* the error of converting the number still open, Nil when it converts
OpenNumberErr(p) ==
    IF p.currentState # "numberState" THEN Nil
    ELSE IF p.isDouble
    THEN IF FloatOK(p.literalBuffer) THEN Nil ELSE errParseFloat
    ELSE ParseInt(p.literalBuffer).err

\* the events delivered once an explicit terminator has ended the number
\* still open
Terminated(p) == JFeed(p, <<chSpace>>).p.visitor.log

\* C10 as stated: after successful feed calls, finalize delivers the event
\* of a number still open as an explicit terminator would, and returns the
\* incomplete-input error if and only if an aggregate, a string or a
\* literal is still open; it returns success when no value is in progress.
C10_FinalizeAsStated ==
    [][ret'.call = "finalize" =>
         /\ jlog' = IF jp.currentState = "numberState" THEN Terminated(jp) ELSE jlog
         /\ ret'.err = errIncomplete <=> Open(jp)
         /\ (~Open(jp) /\ jp.currentState # "numberState") => ret'.err = Nil]_vars

\* C10, amended: after successful feed calls, finalize returns the
\* conversion error of a malformed number still open, delivering nothing,
\* whatever else is open.  Otherwise it delivers the event of a number
\* still open as an explicit terminator would, returns the incomplete-input
\* error if and only if an aggregate, a string or a literal is still open,
\* and returns success when nothing is.
C10_Finalize ==
    [][ret'.call = "finalize" =>
         IF OpenNumberErr(jp) # Nil
         THEN ret'.err = OpenNumberErr(jp) /\ jlog' = jlog
         ELSE /\ jlog' = IF jp.currentState = "numberState" THEN Terminated(jp) ELSE jlog
              /\ ret'.err = errIncomplete <=> Open(jp)
              /\ ~Open(jp) => ret'.err = Nil]_vars

\* the input [1 finalized: the number is delivered, the array is open
C10_Witness ==
    /\ doc = <<chLBracket, 49>>
    /\ pos = 2
    /\ ret = [call |-> "finalize", n |-> 0, err |-> errIncomplete]
    /\ jlog = <<Start("OnArrayStart", 0 - 1, AnyType), Ev("OnInt64", 1, <<>>)>>

-----------------------------------------------------------------------------
(* C11 .. C20 *)

\* the events the consumer of the decoder in use has received
elog == IF dec = "json" THEN jlog ELSE clog

\* C11: consumer-driven cancellation, both decoders.  Once a call has
\* returned the error of the consumer, every later Write or Parse call
\* returns that error, accepts no byte and delivers no event.
C11_Cancellation ==
    [][failure = ErrVisitor =>
         /\ ret'.err = ErrVisitor
         /\ ret'.n = 0
         /\ elog' = elog]_vars

\* the kind of aggregate a start event opens; a byte string is delivered
\* as an array of bytes
KindOf(e) ==
    IF e.ev = "OnObjectStart" THEN "object"
    ELSE IF e.s = ByteType THEN "bytes" ELSE "array"

\* the kinds a finish event may close
Closes(e) == IF e.ev = "OnObjectFinished" THEN {"object"} ELSE {"array", "bytes"}

\* The kinds of the start events of lg[j..] that are not closed, innermost
\* last, on top of those of open; <<"unmatched">> when a finish event has no
\* open start event of its kind to close.
RECURSIVE OpenKinds(_, _, _)
OpenKinds(lg, j, open) ==
    IF j > Len(lg) THEN open
    ELSE IF IsStart(lg[j]) THEN OpenKinds(lg, j + 1, Append(open, KindOf(lg[j])))
    ELSE IF IsFinish(lg[j])
    THEN IF open # <<>> /\ open[Len(open)] \in Closes(lg[j])
         THEN OpenKinds(lg, j + 1, Take(open, Len(open) - 1))
         ELSE <<"unmatched">>
    ELSE OpenKinds(lg, j + 1, open)

\* the number of arrays and maps the events of lg leave open
Unclosed(lg) ==
    Cardinality({i \in 1..Len(OpenKinds(lg, 1, <<>>)) :
                    OpenKinds(lg, 1, <<>>)[i] \in {"array", "object"}})

\* The binary wire format, read without the decoder.  rem holds, for every
\* array and map that is open, the number of items it still lacks (a pair
\* of a map counts twice, -1 stands for an indefinite length).
\* An item is complete: the innermost open aggregate lacks one item less,
\* and aggregates that lack nothing are complete items themselves.
RECURSIVE Completed(_)
Completed(rem) ==
    IF rem = <<>> THEN rem
    ELSE IF rem[Len(rem)] = 1 THEN Completed(Take(rem, Len(rem) - 1))
    ELSE IF rem[Len(rem)] < 0 THEN rem
    ELSE [rem EXCEPT ![Len(rem)] = @ - 1]

\* the number of arrays and maps begun in s[i..] or before and not ended
\* by the end of s; -1 when s is not a prefix of well-formed items, or
\* ends inside the head of an array or map
RECURSIVE CDepth(_, _, _)
CDepth(s, i, rem) ==
    IF i > Len(s) THEN Len(rem)
    ELSE IF s[i] = codeBreak
    THEN IF rem # <<>> /\ rem[Len(rem)] < 0
         THEN CDepth(s, i + 1, Completed(Take(rem, Len(rem) - 1)))
         ELSE 0 - 1
    ELSE IF Major(s[i]) \in {majorArr, majorMap}
    THEN IF Minor(s[i]) = lenIndef THEN CDepth(s, i + 1, Append(rem, 0 - 1))
         ELSE IF ~HeadOK(s, i) THEN 0 - 1
         ELSE IF HeadArg(s, i) = 0
         THEN CDepth(s, i + HeadWidth(s[i]) + 1, Completed(rem))
         ELSE CDepth(s, i + HeadWidth(s[i]) + 1,
                     Append(rem, IF Major(s[i]) = majorMap THEN 2 * HeadArg(s, i)
                                 ELSE HeadArg(s, i)))
    ELSE IF Major(s[i]) \in {majorUint, majorNeg, majorBytes, majorText}
    THEN IF HeadWidth(s[i]) < 0 THEN 0 - 1
         ELSE IF ItemEnd(s, i) = 0 THEN Len(rem)
         ELSE CDepth(s, ItemEnd(s, i) + 1, Completed(rem))
    ELSE IF s[i] \in {codeFalse, codeTrue, codeNull, codeUndef,
                      codeSingleFloat, codeDoubleFloat}
    THEN IF ItemEnd(s, i) = 0 THEN Len(rem)
         ELSE CDepth(s, ItemEnd(s, i) + 1, Completed(rem))
    ELSE 0 - 1

\* The brackets and braces of the text s[i..] outside its strings: depth
\* plus the number of those opened and not closed.  mode tells whether
\* s[i] is outside a literal ("out"), in a string ("str"), behind a
\* backslash in a string ("esc") or in a number ("num").  -1 when more are
\* closed than opened, or one is opened in the middle of a number.
RECURSIVE JDepth(_, _, _, _)
JDepth(s, i, depth, mode) ==
    IF depth < 0 \/ i > Len(s) THEN depth
    ELSE IF mode = "esc" THEN JDepth(s, i + 1, depth, "str")
    ELSE IF mode = "str"
    THEN JDepth(s, i + 1, depth,
                IF s[i] = chQuote THEN "out"
                ELSE IF s[i] = chBackslash THEN "esc" ELSE "str")
    ELSE IF s[i] \in {chRBracket, chRBrace} THEN JDepth(s, i + 1, depth - 1, "out")
    ELSE IF s[i] \in {chLBracket, chLBrace}
    THEN IF mode = "num" THEN 0 - 1 ELSE JDepth(s, i + 1, depth + 1, "out")
    ELSE IF mode = "num"
    THEN JDepth(s, i + 1, depth, IF isStopChar(s[i]) THEN "out" ELSE "num")
    ELSE IF s[i] = chQuote THEN JDepth(s, i + 1, depth, "str")
    ELSE IF s[i] \in {chMinus, chPlus, chDot} \/ isDigit(s[i])
    THEN JDepth(s, i + 1, depth, "num")
    ELSE JDepth(s, i + 1, depth, "out")

\* the nesting depth of the aggregates not ended in the bytes fed so far
TrueDepth ==
    IF dec = "json" THEN JDepth(Fed, 1, 0, "out") ELSE CDepth(Fed, 1, <<>>)

\* C12: nesting consistency, both decoders.  As long as no call has
\* failed, every finish event closes the most recent open start event and
\* is of its kind, and the number of start events not closed is the
\* nesting depth of the aggregates not ended in the bytes fed so far.
C12_NestingConsistency ==
    (failure = Nil /\ ret.err # Diverges) =>
        /\ OpenKinds(elog, 1, <<>>) # <<"unmatched">>
        /\ TrueDepth >= 0 => Unclosed(elog) = TrueDepth

\* the text {"a":[1,2,3],"b":true}
NestedDoc ==
    <<chLBrace, chQuote, 97, chQuote, chColon, chLBracket, 49, chComma, 50,
      chComma, 51, chRBracket, chComma, chQuote, 98, chQuote, chColon,
      cht, 114, 117, 101, chRBrace>>

\* its events, the integers delivered by the event named int
NestedEvents(int) ==
    << Start("OnObjectStart", 0 - 1, AnyType),
       Ev("OnKey", 0, <<97>>),
       Start("OnArrayStart", 0 - 1, AnyType),
       Ev(int, 1, <<>>), Ev(int, 2, <<>>), Ev(int, 3, <<>>),
       Ev("OnArrayFinished", 0, <<>>),
       Ev("OnKey", 0, <<98>>),
       Ev("OnBool", 1, <<>>),
       Ev("OnObjectFinished", 0, <<>>) >>

\* the text decoder has been given the whole stream in its first call
OneFragment == dec = "json" /\ calls = 1 /\ pos = Len(doc) /\ ret.call \in {"Write", "Parse"}

\* every aggregate start event of the text decoder carries the count
\* 'unknown'
StartsUnknown == \A i \in 1..Len(jlog) : IsStart(jlog[i]) => jlog[i].n = 0 - 1

LitOf(d) == IF d[1] = 110 THEN litNull ELSE IF d[1] = 116 THEN litTrue ELSE litFalse

LitErr(d) ==
    IF d[1] = 110 THEN errExpectedNull
    ELSE IF d[1] = 116 THEN errExpectedTrue ELSE errExpectedFalse

LitEvent(d) ==
    IF d[1] = 110 THEN Ev("OnNil", 0, <<>>)
    ELSE Ev("OnBool", IF d[1] = 116 THEN 1 ELSE 0, <<>>)

\* the number of leading bytes on which s and t agree
RECURSIVE CommonPrefix(_, _)
CommonPrefix(s, t) ==
    IF s = <<>> \/ t = <<>> \/ Head(s) # Head(t) THEN 0
    ELSE 1 + CommonPrefix(Tail(s), Tail(t))

StartsLiteral == dec = "json" /\ doc # <<>> /\ doc[1] \in {110, 116, 102} /\ fin = "no"

\* C14: a literal null / true / false split over fragments in any way
\* delivers no event before the call that supplies its last byte and exactly
\* one event in that call; the first byte that does not match the literal
\* makes the feed fail with the error that names the expected literal.
C14_SplitLiteral ==
    StartsLiteral =>
        LET L == LitOf(doc)
            k == CommonPrefix(doc, L)
        IN  /\ (pos <= k /\ pos < Len(L)) => (failure = Nil /\ jlog = <<>>)
            /\ (k = Len(L) /\ pos = Len(L)) =>
                   (failure = Nil /\ jlog = <<LitEvent(doc)>>)
            /\ (k < Len(L) /\ pos > k) => failure = LitErr(doc)

\* false fed in three fragments, or null / true in two or more
C14_Witness ==
    /\ StartsLiteral /\ doc = LitOf(doc)
    /\ calls >= 2 /\ pos = Len(doc) /\ ret.call = "Write" /\ ret.n > 0 /\ ret.n < Len(doc)
    /\ jlog = <<LitEvent(doc)>>

IsPrefixOf(a, b) == Len(a) <= Len(b) /\ a = SubSeq(b, 1, Len(a))

\* Reference reading of a binary stream made of small unsigned integers,
\* false / true / null / undefined, arrays and maps with a count below 24 or
\* of indefinite length, text keys shorter than 24 bytes and break bytes.
\* A frame of the reference is [kind, rem, atKey]; RefDone is what the
\* completion of one value does to the open frames.
RefFrame(kind, rem) == [kind |-> kind, rem |-> rem, atKey |-> kind \in {"map", "imap"}]

RefPop(st) == SubSeq(st, 1, Len(st) - 1)

RECURSIVE RefDone(_, _)
RefDone(st, ev) ==
    IF st = <<>> THEN [st |-> st, ev |-> ev]
    ELSE LET f == st[Len(st)] IN
         IF f.kind \in {"iarr", "imap"}
         THEN [st |-> [st EXCEPT ![Len(st)].atKey = (f.kind = "imap")], ev |-> ev]
         ELSE IF f.rem > 1
         THEN [st |-> [st EXCEPT ![Len(st)] =
                           [f EXCEPT !.rem = f.rem - 1, !.atKey = (f.kind = "map")]],
               ev |-> ev]
         ELSE RefDone(RefPop(st),
                      Append(ev, Ev(IF f.kind = "arr" THEN "OnArrayFinished"
                                    ELSE "OnObjectFinished", 0, <<>>)))

\* the result of the reference: the events up to offset at, where the
\* reading stops; err is the error the byte at that offset is, Nil when the
\* stream ends or leaves the tokens above there; definite tells whether an
\* aggregate with a count was read. keyBreak is the error of a break byte
\* in key position of a map with a count.
RefStop(ev, err, at, definite) == [ev |-> ev, err |-> err, at |-> at, definite |-> definite]

RECURSIVE RefRead(_, _, _, _, _, _)
RefRead(s, i, st, ev, definite, keyBreak) ==
    IF i > Len(s) THEN RefStop(ev, Nil, i, definite)
    ELSE
    LET c     == s[i]
        top   == IF st = <<>> THEN RefFrame("top", 0) ELSE st[Len(st)]
        after == RefDone(st, ev)
    IN  IF top.atKey
        THEN IF c = codeBreak /\ top.kind = "imap"
             THEN LET d == RefDone(RefPop(st), Append(ev, Ev("OnObjectFinished", 0, <<>>)))
                  IN  RefRead(s, i + 1, d.st, d.ev, definite, keyBreak)
             ELSE IF c = codeBreak THEN RefStop(ev, keyBreak, i, definite)
             ELSE IF Major(c) # majorText THEN RefStop(ev, errTextKeyRequired, i, definite)
             ELSE IF Minor(c) >= len8b THEN RefStop(ev, Nil, i, definite)
             ELSE IF i + Minor(c) > Len(s) THEN RefStop(ev, Nil, Len(s) + 1, definite)
             ELSE RefRead(s, i + Minor(c) + 1,
                          [st EXCEPT ![Len(st)].atKey = FALSE],
                          Append(ev, Ev("OnKeyRef", 0, SubSeq(s, i + 1, i + Minor(c)))),
                          definite, keyBreak)
        ELSE IF c = codeBreak
        THEN IF top.kind = "iarr"
             THEN LET d == RefDone(RefPop(st), Append(ev, Ev("OnArrayFinished", 0, <<>>)))
                  IN  RefRead(s, i + 1, d.st, d.ev, definite, keyBreak)
             ELSE RefStop(ev, errInvalidCode, i, definite)
        ELSE IF c < len8b
        THEN LET d == RefDone(st, Append(ev, Ev("OnUint8", c, <<>>)))
             IN  RefRead(s, i + 1, d.st, d.ev, definite, keyBreak)
        ELSE IF c \in {codeFalse, codeTrue}
        THEN LET d == RefDone(st, Append(ev, Ev("OnBool", IF c = codeTrue THEN 1 ELSE 0, <<>>)))
             IN  RefRead(s, i + 1, d.st, d.ev, definite, keyBreak)
        ELSE IF c \in {codeNull, codeUndef}
        THEN LET d == RefDone(st, Append(ev, Ev("OnNil", 0, <<>>)))
             IN  RefRead(s, i + 1, d.st, d.ev, definite, keyBreak)
        ELSE IF Major(c) \in {majorArr, majorMap} /\ Minor(c) = lenIndef
        THEN RefRead(s, i + 1,
                     Append(st, RefFrame(IF Major(c) = majorArr THEN "iarr" ELSE "imap", 0)),
                     Append(ev, Start(IF Major(c) = majorArr THEN "OnArrayStart"
                                      ELSE "OnObjectStart", 0 - 1, AnyType)),
                     definite, keyBreak)
        ELSE IF Major(c) \in {majorArr, majorMap} /\ Minor(c) < len8b
        THEN LET isArr == Major(c) = majorArr
                 ev1   == Append(ev, Start(IF isArr THEN "OnArrayStart" ELSE "OnObjectStart",
                                           Minor(c), AnyType))
             IN  IF Minor(c) = 0
                 THEN LET d == RefDone(st, Append(ev1, Ev(IF isArr THEN "OnArrayFinished"
                                                          ELSE "OnObjectFinished", 0, <<>>)))
                      IN  RefRead(s, i + 1, d.st, d.ev, TRUE, keyBreak)
                 ELSE RefRead(s, i + 1,
                              Append(st, RefFrame(IF isArr THEN "arr" ELSE "map", Minor(c))),
                              ev1, TRUE, keyBreak)
        ELSE RefStop(ev, Nil, i, definite)

\* what C15 says of a stream the reference reads as r
BreakRule(r) ==
    /\ pos < r.at => (failure = Nil /\ IsPrefixOf(clog, r.ev))
    /\ (r.err # Nil /\ pos >= r.at) => failure = r.err
    /\ (pos = Len(doc) /\ r.at = Len(doc) + 1 /\ ~r.definite
          /\ doc # <<>> /\ Minor(doc[Len(doc)]) # lenIndef) => clog = r.ev

\* C15 as stated: an array or map of indefinite length delivers its start
\* with count unknown, one event group per element or pair, and its finish
\* at a break byte in element or key position; a break byte anywhere else,
\* the key position of a map with a count included, is errInvalidCode.
C15_IndefiniteAsStated ==
    dec = "cborl" => BreakRule(RefRead(doc, 1, <<>>, <<>>, FALSE, errInvalidCode))

\* C15, amended: as above, but a break byte in key position of a map with a
\* count is errTextKeyRequired; at top level, in an array with a count and
\* in value position of a map it is errInvalidCode.
C15_Indefinite ==
    dec = "cborl" => BreakRule(RefRead(doc, 1, <<>>, <<>>, FALSE, errTextKeyRequired))

\* 9F 01 02 FF, fed in two or more fragments
C15_Witness ==
    /\ dec = "cborl" /\ doc = <<159, 1, 2, 255>> /\ pos = 4 /\ calls >= 2
    /\ failure = Nil
    /\ clog = <<Start("OnArrayStart", 0 - 1, AnyType), Ev("OnUint8", 1, <<>>),
                Ev("OnUint8", 2, <<>>), Ev("OnArrayFinished", 0, <<>>)>>

\* the error C16 expects of the token that starts with byte c, Nil when the
\* token is none of the unsupported constructs
UnsupportedErr(c) ==
    IF c = codeHalfFloat \/ Major(c) = majorTag THEN errTODO
    ELSE IF c \in {majorBytes + lenIndef, majorText + lenIndef} THEN errIndefByteSeq
    ELSE Nil

\* the reference reading of doc stops at an unsupported token: in value
\* position at any of them, in key position at a text string of indefinite
\* length (any other token that is no text is an error of the key there)
Unsupported(r) ==
    /\ dec = "cborl" /\ r.err = Nil /\ r.at <= Len(doc)
    /\ UnsupportedErr(doc[r.at]) # Nil

\* the call that reads the unsupported token fails with its error and
\* delivers nothing for it
UnsupportedFails ==
    LET r == RefRead(doc, 1, <<>>, <<>>, FALSE, errTextKeyRequired) IN
    (Unsupported(r) /\ pos >= r.at) =>
        /\ failure = UnsupportedErr(doc[r.at])
        /\ (ret.err = failure /\ calls = 1) => clog = r.ev

\* C16: a half-precision float, a tag, and a byte or text string (a map key
\* included) of indefinite length make feed return errTODO resp.
\* errIndefByteSeq, no event is delivered for the token and none afterwards.
C16_Unsupported ==
    LET r == RefRead(doc, 1, <<>>, <<>>, FALSE, errTextKeyRequired) IN
    (Unsupported(r) /\ pos >= r.at) =>
        /\ failure = UnsupportedErr(doc[r.at])
        /\ IsPrefixOf(clog, r.ev)

\* the decoder is about to read a key: inside a map of indefinite length,
\* or inside a map with a count that still lacks pairs
AtKeyPosition ==
    /\ dec = "cborl"
    /\ \/ cp.state.current.major \in {majorMap + stIndef, stStartIndefMap}
       \/ /\ cp.state.current.major \in {majorMap, stStartMap}
          /\ cp.length.current # 0

KeyIsIndef == cp.state.current.major \in {majorMap + stIndef, stStartIndefMap}

\* the events of lg[j..] directly inside a map: every event that begins a
\* value follows a key event at once, and that key event follows no key event
RECURSIVE KeysPaired(_, _, _)
KeysPaired(lg, j, open) ==
    IF j > Len(lg) THEN TRUE
    ELSE LET e     == lg[j]
             inMap == open # <<>> /\ open[Len(open)] = "object"
         IN  IF IsFinish(e)
             THEN open # <<>> /\ KeysPaired(lg, j + 1, Take(open, Len(open) - 1))
             ELSE IF IsKey(e) THEN inMap /\ KeysPaired(lg, j + 1, open)
             ELSE /\ inMap => /\ j > 1 /\ IsKey(lg[j - 1])
                              /\ j > 2 => ~IsKey(lg[j - 2])
                  /\ KeysPaired(lg, j + 1,
                                IF IsStart(e) THEN Append(open, KindOf(e)) ELSE open)

\* in key position of a map a token that is no text string (and, in a map of
\* indefinite length, no break byte) makes feed return errTextKeyRequired
\* without a key event
KeyRequired ==
    [][(AtKeyPosition /\ pos' > pos /\ Major(doc[pos + 1]) # majorText
        /\ ~(KeyIsIndef /\ doc[pos + 1] = codeBreak))
       => /\ ret'.err = errTextKeyRequired
          /\ SelectSeq(clog', IsKey) = SelectSeq(clog, IsKey)]_vars

\* C17: in key position of a map a token that is no text string (and, in a
\* map of indefinite length, no break byte) makes feed return
\* errTextKeyRequired without a key event; every value event directly inside
\* a map follows exactly one key event at once.
C17_MapKeys ==
    /\ KeyRequired
    /\ [](dec = "cborl" => KeysPaired(clog, 1, <<>>))

\* the depth of the frame stack of the decoder in use
StackDepth == IF dec = "json" THEN Len(jp.states) ELSE Len(cp.state.stack)

\* the stack is empty and the initial frame is current
AtRest ==
    /\ StackDepth = 0
    /\ IF dec = "json" THEN jp.currentState = "startState"
       ELSE cp.state.current = St(stValue, stStart)

\* the frames the token in progress holds.  Text decoder: one for a
\* literal, a string or a number.  Binary decoder: two for an array or map
\* whose start event is due, one for a scalar, a string, a key or the
\* value after a key, and one more while a length field is read.
StartFrames == {stStartArr, stStartMap, stStartIndefArr, stStartIndefMap}

TokenFrames ==
    IF dec = "json"
    THEN IF jp.currentState \in {"nullState", "trueState", "falseState",
                                 "stringState", "numberState"} THEN 1 ELSE 0
    ELSE LET m == cp.state.current.major IN
         IF m \in {stValue, majorArr, majorMap, majorArr + stIndef, majorMap + stIndef}
         THEN 0
         ELSE IF m \in StartFrames THEN 2
         ELSE IF m = stLen
         THEN IF cp.state.stack[Len(cp.state.stack)].major \in StartFrames THEN 3 ELSE 2
         ELSE 1

NoFailure == failure = Nil /\ ret.err # Diverges

CarryBuffer == IF dec = "json" THEN jp.literalBuffer ELSE cp.buffer

\* the current frame denotes a literal or a multi-byte field in progress:
\* a string, key or number of the text decoder; a length, integer or float
\* field, a text body or a key of the binary decoder
MidLiteral ==
    IF dec = "json"
    THEN jp.currentState \in {"stringState", "dictFieldState", "numberState"}
    ELSE cp.state.current.major \in {stLen, majorUint, majorNeg, codeSingleFloat,
                                     codeDoubleFloat, majorText, stKey}

\* C19: carry-buffer invariant, both decoders.  As long as no call has
\* failed, the carry buffer is not empty only while the current frame
\* denotes a literal or multi-byte field in progress; so it is empty after
\* a literal is complete, a number completed by finalize included, and
\* when the next literal starts.
C19_CarryBuffer == (NoFailure /\ CarryBuffer # <<>>) => MidLiteral

\* the frames of the binary decoder, the current one last
CFrames == Append(cp.state.stack, cp.state.current)

\* the open constructs that own an entry of the length stack: arrays and
\* maps with a count, byte strings, text strings and keys; the one whose
\* length field is still being read has none yet
LengthOwners ==
    Cardinality({i \in 1..Len(CFrames) :
                    CFrames[i].major \in {majorArr, majorMap, majorBytes, majorText, stKey}})
    - (IF cp.state.current.major = stLen THEN 1 ELSE 0)

\* C20: pending-length stack of the binary decoder.  As long as no call
\* has failed, the length stack holds one entry for every open array or map
\* with a count and every open string or key; so with no value in progress
\* it is as deep as at the start.
C20_LengthStack ==
    (dec = "cborl" /\ NoFailure) => Len(cp.length.stack) = LengthOwners

\* the number of values that the events lg[j..] begin at depth 0, depth
\* being the number of start events open before lg[j]
RECURSIVE TopValues(_, _, _)
TopValues(lg, j, depth) ==
    IF j > Len(lg) THEN 0
    ELSE IF IsFinish(lg[j]) THEN TopValues(lg, j + 1, depth - 1)
    ELSE (IF depth = 0 THEN 1 ELSE 0)
         + TopValues(lg, j + 1, IF IsStart(lg[j]) THEN depth + 1 ELSE depth)

\* C21: text decoder, top-level completion.  One feed call stops when a
\* top-level value is complete: the bytes of the fragment behind it begin no
\* second top-level value and deliver no event in that call.
C21_TopLevelCompletion ==
    (dec = "json" /\ calls = 1) => TopValues(jlog, 1, 0) <= 1

\* the bytes a value of the text format may begin with
ValueStart ==
    {chLBrace, chLBracket, chQuote, chMinus, chPlus, chDot, 110, 116, 102}
    \cup {c \in 0..255 : isDigit(c)}

\* the bytes the grammar of C22 accepts in front of the text decoder in
\* state s: in an object behind the brace, behind a comma, behind a key,
\* behind the colon and behind a value; in an array behind the bracket,
\* behind a comma and behind a value
Accepted(s) ==
    IF s = "dictState" THEN {chRBrace, chQuote}
    ELSE IF s = "dictNextFieldState" THEN {chQuote}
    ELSE IF s = "dictFieldValueSep" THEN {chColon}
    ELSE IF s = "dictFieldValue" THEN ValueStart
    ELSE IF s = "dictFieldStateEnd" THEN {chComma, chRBrace}
    ELSE IF s = "arrState" THEN ValueStart \cup {chRBracket}
    ELSE IF s = "arrStateValue" THEN ValueStart
    ELSE IF s = "arrStateNext" THEN {chComma, chRBracket}
    ELSE 0..255

SyntaxErrors ==
    {errUnknownChar, errExpectColon, errUnexpectedDictClose, errUnexpectedArrClose,
     errExpectedFieldName}

RECURSIVE ByteEvents(_)
ByteEvents(bs) ==
    IF bs = <<>> THEN <<>>
    ELSE <<Ev("OnByte", Head(bs), <<>>)>> \o ByteEvents(Tail(bs))

\* the stream begins with the head of a byte string of definite length
StartsByteString ==
    /\ dec = "cborl" /\ doc # <<>> /\ Major(doc[1]) = majorBytes /\ HeadOK(doc, 1)

\* the events of the byte string whose head is at s[1], as far as its body
\* is in s
ByteStringEvents(s) ==
    LET h == 1 + HeadWidth(s[1])
        L == HeadArg(s, 1)
    IN  <<Start("OnArrayStart", L, ByteType)>>
        \o ByteEvents(SubSeq(s, h + 1, IF h + L <= Len(s) THEN h + L ELSE Len(s)))
        \o (IF h + L <= Len(s) THEN <<Ev("OnArrayFinished", 0, <<>>)>> ELSE <<>>)

=============================================================================
